---------------------------- MODULE Spec2Model ----------------------------
(***************************************************************************)
(* lpop keychain-native: the credential-store backends                     *)
(*   FallbackKeychain  (platform/fallback.rs)  in-memory map under a Mutex  *)
(*   MacOSKeychain     (platform/macos.rs)     native Security.framework    *)
(*   LinuxKeychain     (platform/linux.rs)     unimplemented stub           *)
(*   MockKeychain      (platform/tests/mod.rs) account-keyed test double    *)
(* modelled as state machines driven by concurrent callers.                *)
(*                                                                         *)
(* Strings that the code only compares for equality (service names) are    *)
(* TLA+ strings.  Accounts are sequences of one-character strings, so that *)
(* str::starts_with is computed.  Passwords are sequences of Unicode       *)
(* scalar values; the native store keeps their UTF-8 bytes.                *)
(***************************************************************************)
EXTENDS Integers, Sequences, FiniteSets, TLC

(***************************************************************************)
(* Bounds of the model.                                                    *)
(***************************************************************************)
NumCallers == 2

Callers == 1..NumCallers

Services == {"github.com/o/r?env=dev", "local/dir?env=dev"}

Digits == <<"1", "2", "3", "4", "5", "6">>

\* format!("concurrent_account_{}_{}", i, service_id)
OwnAccount(c) == <<"K", Digits[c]>>

Accounts == {OwnAccount(1)}

\* the keys of the concurrent test: one account per task, one service
OwnKey(c) == <<"github.com/o/r?env=dev", OwnAccount(c)>>

\* the key all callers contend for when they issue any call
Keys == {OwnKey(1)}

\* the keys of calls on one account under two services
WideKeys == {OwnKey(1), <<"local/dir?env=dev", OwnAccount(1)>>}

AllAccounts == Accounts \cup {OwnAccount(c) : c \in Callers}

AllKeys == Services \X AllAccounts

\* the empty password, and one of 1-, 2-, 3- and 4-byte scalar values
PasswordList == << <<112, 233, 23494, 128273>>, << >> >>

Passwords == {PasswordList[i] : i \in 1..Len(PasswordList)}

(***************************************************************************)
(* Option<T> and Result<T, KeychainError> values.                          *)
(***************************************************************************)
None == [some |-> FALSE, v |-> << >>]

Some(x) == [some |-> TRUE, v |-> x]

NoErr == [kind |-> "none", code |-> 0]

Ok(x) == [tag |-> "Ok", val |-> x, err |-> NoErr]

Err(e) == [tag |-> "Err", val |-> << >>, err |-> e]

Unit == << >>

\* KeychainError::PlatformError(format!("...: OSStatus {}", status))
PlatformError(status) == [kind |-> "PlatformError", code |-> status]

\* KeychainError::Unsupported("Not implemented")
Unsupported == [kind |-> "Unsupported", code |-> 0]

\* KeychainError::AccessDenied
AccessDenied == [kind |-> "AccessDenied", code |-> 0]

IsOk(r) == r.tag = "Ok"

IsOkNone(r) == r.tag = "Ok" /\ ~r.val.some

IsOkSome(r, p) == r.tag = "Ok" /\ r.val.some /\ r.val.v = p

IsOkBool(r, b) == r.tag = "Ok" /\ r.val = b

IsErrKind(r, kind) == r.tag = "Err" /\ r.err.kind = kind

IsErr(r) == r.tag = "Err"

(***************************************************************************)
(* OSStatus values of Security.framework used by the code.                 *)
(***************************************************************************)
errSecSuccess == 0

errSecItemNotFound == -25300

errSecDuplicateItem == -25299

errSecAuthFailed == -25293

(***************************************************************************)
(* UTF-8: &str -> bytes (CFString::new(password) stored as kSecValueData)  *)
(* and bytes -> String (String::from_utf8_lossy).                          *)
(***************************************************************************)
\* fault variant of encode_utf8_char: every scalar is cut to one byte
encode_utf8_char_truncated(c) == <<c % 256>>

encode_utf8_char(c) ==
    IF c < 128 THEN <<c>>
    ELSE IF c < 2048 THEN <<192 + (c \div 64), 128 + (c % 64)>>
    ELSE IF c < 65536 THEN
        <<224 + (c \div 4096), 128 + ((c \div 64) % 64), 128 + (c % 64)>>
    ELSE <<240 + (c \div 262144), 128 + ((c \div 4096) % 64),
           128 + ((c \div 64) % 64), 128 + (c % 64)>>

RECURSIVE as_bytes(_)
as_bytes(s) ==
    IF s = << >> THEN << >>
    ELSE encode_utf8_char(Head(s)) \o as_bytes(Tail(s))

IsCont(b, lo, hi) == b >= lo /\ b <= hi

\* Decodes the scalar value at the head of bytes b: <<scalar, bytes consumed>>.
\* An invalid or truncated sequence yields U+FFFD for its maximal valid prefix.
utf8_chunk(b) ==
    LET n == Len(b)
        b1 == b[1]
        lo2 == IF b1 = 224 THEN 160 ELSE IF b1 = 240 THEN 144 ELSE 128
        hi2 == IF b1 = 237 THEN 159 ELSE IF b1 = 244 THEN 143 ELSE 191
        width == IF b1 < 128 THEN 1
                 ELSE IF b1 >= 194 /\ b1 <= 223 THEN 2
                 ELSE IF b1 >= 224 /\ b1 <= 239 THEN 3
                 ELSE IF b1 >= 240 /\ b1 <= 244 THEN 4
                 ELSE 0
    IN  IF width = 0 THEN <<65533, 1>>
        ELSE IF width = 1 THEN <<b1, 1>>
        ELSE IF n < 2 \/ ~IsCont(b[2], lo2, hi2) THEN <<65533, 1>>
        ELSE IF width = 2 THEN <<(b1 - 192) * 64 + (b[2] - 128), 2>>
        ELSE IF n < 3 \/ ~IsCont(b[3], 128, 191) THEN <<65533, 2>>
        ELSE IF width = 3 THEN
            <<(b1 - 224) * 4096 + (b[2] - 128) * 64 + (b[3] - 128), 3>>
        ELSE IF n < 4 \/ ~IsCont(b[4], 128, 191) THEN <<65533, 3>>
        ELSE <<(b1 - 240) * 262144 + (b[2] - 128) * 4096
               + (b[3] - 128) * 64 + (b[4] - 128), 4>>

RECURSIVE from_utf8_lossy(_)
from_utf8_lossy(b) ==
    IF b = << >> THEN << >>
    ELSE LET ch == utf8_chunk(b)
         IN  <<ch[1]>> \o from_utf8_lossy(SubSeq(b, ch[2] + 1, Len(b)))

(***************************************************************************)
(* std::collections::HashMap<K, V>, as the set of its (key, value) entries. *)
(***************************************************************************)
HashMap_new == {}

HashMap_contains(m, k) == \E e \in m : e.k = k

HashMap_get(m, k) ==
    IF HashMap_contains(m, k) THEN Some((CHOOSE e \in m : e.k = k).v) ELSE None

\* insert replaces the value of an existing key
HashMap_insert(m, k, v) == {e \in m : e.k # k} \cup {[k |-> k, v |-> v]}

\* remove returns the removed value; the map afterwards is HashMap_without
HashMap_remove(m, k) == HashMap_get(m, k)

HashMap_without(m, k) == {e \in m : e.k # k}

(***************************************************************************)
(* KeychainOptions / the fields of MacOSKeychain.                          *)
(***************************************************************************)
\* MacOSKeychain::new: synchronizable: options.synchronizable.unwrap_or(false)
MacOSKeychain_new(options) ==
    [team_id |-> options.team_id,
     access_group |-> options.access_group,
     synchronizable |-> IF options.synchronizable.some
                        THEN options.synchronizable.v ELSE FALSE]

\* the options a store is constructed with
KeychainOptions ==
    {[team_id |-> None, access_group |-> None, synchronizable |-> None],
     [team_id |-> None, access_group |-> None, synchronizable |-> Some(TRUE)],
     [team_id |-> Some("TEAM123"), access_group |-> Some("com.test.shared"),
      synchronizable |-> Some(FALSE)],
     [team_id |-> None, access_group |-> Some("com.test.shared"),
      synchronizable |-> Some(TRUE)]}

\* the attribute query of one native call: kSecClass, kSecAttrService,
\* kSecAttrAccount, kSecAttrAccessGroup, kSecAttrSynchronizable
build_base_query(self, service, account) ==
    [class |-> "genp",
     svce |-> service,
     acct |-> account,
     agrp |-> IF self.access_group.some
              THEN IF self.team_id.some
                   THEN Some(<<self.team_id.v, ".", self.access_group.v>>)
                   ELSE Some(<<self.access_group.v>>)
              ELSE None,
     sync |-> self.synchronizable]

\* security_framework::passwords::delete_generic_password(service, account)
\* searches by class, service and account alone
generic_password_query(service, account) ==
    [class |-> "genp", svce |-> service, acct |-> Some(account),
     agrp |-> None, sync |-> FALSE]

(***************************************************************************)
(* The OS keychain: a set of items.  A query without an access group       *)
(* matches every group; a query without the synchronizable attribute       *)
(* matches non-synchronizable items only.                                  *)
(***************************************************************************)
DefaultAccessGroup == <<"default">>

ItemMatches(item, q) ==
    /\ item.class = q.class
    /\ item.svce = q.svce
    /\ (q.acct.some => item.acct = q.acct.v)
    /\ (q.agrp.some => item.agrp = q.agrp.v)
    /\ item.sync = q.sync

Matching(kc, q) == {item \in kc : ItemMatches(item, q)}

\* SecItemAdd(attributes): <<status, keychain afterwards>>
SecItemAdd(kc, auth, q, data, label) ==
    LET item == [class |-> q.class, svce |-> q.svce, acct |-> q.acct.v,
                 agrp |-> IF q.agrp.some THEN q.agrp.v ELSE DefaultAccessGroup,
                 sync |-> q.sync, data |-> data, labl |-> label]
        dup == \E i \in kc : /\ i.class = item.class /\ i.svce = item.svce
                             /\ i.acct = item.acct /\ i.agrp = item.agrp
                             /\ i.sync = item.sync
    IN  IF ~auth THEN <<errSecAuthFailed, kc>>
        ELSE IF dup THEN <<errSecDuplicateItem, kc>>
        ELSE <<errSecSuccess, kc \cup {item}>>

\* what a call of SecItemAdd may return: the outcome by the content of the
\* keychain, or a refusal for a reason of the OS (the keychain locked since
\* the previous call, no user interaction allowed), which adds nothing
SecItemAdd_outcomes(kc, auth, q, data, label) ==
    {SecItemAdd(kc, auth, q, data, label), <<errSecAuthFailed, kc>>}

\* SecItemCopyMatching with kSecReturnData and kSecMatchLimitOne:
\* the set of possible <<status, data>> outcomes
SecItemCopyMatching(kc, auth, q) ==
    IF ~auth THEN {<<errSecAuthFailed, << >>>>}
    ELSE IF Matching(kc, q) = {} THEN {<<errSecItemNotFound, << >>>>}
    ELSE {<<errSecSuccess, i.data>> : i \in Matching(kc, q)}

\* SecItemDelete(query): <<status, keychain afterwards>>
SecItemDelete(kc, auth, q) ==
    IF ~auth THEN <<errSecAuthFailed, kc>>
    ELSE IF Matching(kc, q) = {} THEN <<errSecItemNotFound, kc>>
    ELSE <<errSecSuccess, kc \ Matching(kc, q)>>

delete_generic_password(kc, auth, service, account) ==
    SecItemDelete(kc, auth, generic_password_query(service, account))

\* the attribute query of the native call an operation makes: SecItemAdd in
\* set_password and SecItemCopyMatching in get_password get
\* build_base_query, the delete of delete_password and of set_password's
\* first statement is delete_generic_password's
MacOS_query(self, call, service, account) ==
    IF call = "SecItemDelete" THEN generic_password_query(service, account)
    ELSE build_base_query(self, service, Some(account))

(***************************************************************************)
(* State.                                                                  *)
(***************************************************************************)
VARIABLES
    backend,     \* the backend type the store instance is bound to
    self,        \* MacOSKeychain { team_id, access_group, synchronizable }
    authorized,  \* authorization state of the OS keychain for this process
    storage,     \* FallbackKeychain.storage: HashMap<(String, String), String>
    keychain,    \* the items of the OS keychain
    pc,          \* per caller: "idle", or "add" inside MacOSKeychain::set_password
    pend,        \* per caller: the arguments of the call in progress
    lastOp,      \* history, per key: what the calls completed so far did to it
    ev,          \* history: the call that returned in the last step
    mode,        \* "free": callers issue any call on one key; "wide": on two
                 \* keys; "script": the concurrent test
    sres,        \* per caller in script mode: the results of its calls so far
    mock,        \* MockKeychain { storage, metadata, fail_on_set, fail_on_get }
    mret,        \* history: the MockKeychain call that returned in the last step
    locks,       \* the mutexes of the in-memory stores: who holds them, and
                 \* how far each caller's call in progress has come
    cli,         \* the credential store the CLI's KeychainManager works on
    cret,        \* history: the CLI call that returned in the last step
    txt,         \* history: the last call of a text function of the CLI
    factory,     \* target platform, and how the store instance came to be
    two          \* two FallbackKeychain instances of one process

mockVars == <<mock, mret, locks>>

cliVars == <<cli, cret, txt>>

storeVars == <<backend, self, authorized, storage, keychain, pc, pend, lastOp,
               ev, mode, sres, factory, two>>

storeVars_but_two == <<backend, self, authorized, storage, keychain, pc, pend,
                       lastOp, ev, mode, sres, factory>>

vars == <<storeVars, mockVars, cliVars>>

Backends == {"fallback", "macos", "linux"}

\* lastOp[k]: no call has touched k yet
Never == [kind |-> "never", pw |-> << >>, by |-> 0]

\* lastOp[k]: the last call on k was a delete_password that returned Ok(true),
\* or one that returned Ok(false) or failed on a key already in this state
Deleted == [kind |-> "deleted", pw |-> << >>, by |-> 0]

\* lastOp[k]: anything else (a failed write, overlapping writes)
Other == [kind |-> "other", pw |-> << >>, by |-> 0]

\* lastOp[k]: the set_password of caller c is between its two native calls
InFlight(c) == [kind |-> "inflight", pw |-> << >>, by |-> c]

\* lastOp[k]: the last call on k was a set_password(k, p) that returned Ok
WasSet(p) == [kind |-> "set", pw |-> p, by |-> 0]

NoPend == [key |-> <<"", << >>>>, pw |-> << >>, old |-> Never, native |-> << >>]

\* the String a backend puts into its error: format!("Failed to add
\* keychain item: OSStatus {}", status), format!("Failed to delete keychain
\* item: {}", e) with the native error of that status, "Not implemented"
error_payload(op, e) ==
    CASE e.kind = "PlatformError" ->
            CASE op = "set" -> <<"Failed to add keychain item: OSStatus ", e.code>>
              [] op = "get" -> <<"Failed to get keychain item: OSStatus ", e.code>>
              [] OTHER -> <<"Failed to delete keychain item: ", e.code>>
      [] e.kind = "Unsupported" -> <<"Not implemented">>
      [] OTHER -> << >>

\* impl fmt::Display for KeychainError
Display(kind, payload) ==
    CASE kind = "NotFound" -> <<"Keychain item not found: ">> \o payload
      [] kind = "AccessDenied" -> <<"Access denied to keychain">>
      [] kind = "InvalidData" -> <<"Invalid data: ">> \o payload
      [] kind = "InvalidParameter" -> <<"Invalid parameter: ">> \o payload
      [] kind = "PlatformError" -> <<"Platform error: ">> \o payload
      [] kind = "Unsupported" -> <<"Unsupported operation: ">> \o payload
      [] OTHER -> <<"This operation is not supported on this platform">>

\* napi::Error::new(napi::Status::GenericFailure, e.to_string())
napi_Error(op, e) ==
    [kind |-> "GenericFailure", code |-> 0,
     reason |-> Display(e.kind, error_payload(op, e))]

\* fault variant of Keychain_map_err: the error's text is dropped
Keychain_map_err_opaque(op, res) ==
    IF IsErr(res)
    THEN Err([kind |-> "GenericFailure", code |-> 0, reason |-> << >>])
    ELSE res

\* the public operations of Keychain (lib.rs): the backend's result with
\* .map_err(|e| napi::Error::new(GenericFailure, e.to_string()))
Keychain_map_err(op, res) ==
    IF IsErr(res) THEN Err(napi_Error(op, res.err)) ELSE res

\* fault variant of Keychain_invocations: a failed call is tried again
Keychain_invocations_retry(res) == IF IsErr(res) THEN 2 ELSE 1

\* the public operations call self.platform.<operation>(..) once
Keychain_invocations(res) == 1

\* out: what the public operation hands to its caller; calls: how often it
\* invoked the backend operation; native: the calls of the OS keychain API
\* the operation made, in order, each with its status
NoEvent ==
    [op |-> "none", key |-> <<"", << >>>>, pw |-> << >>,
     res |-> Ok(Unit), status |-> errSecSuccess, ctx |-> Never, pre |-> FALSE,
     same |-> TRUE, out |-> Ok(Unit), calls |-> 0, native |-> << >>]

\* the passwords the store instance holds for key k
Held(k) ==
    CASE backend = "fallback" -> {e.v : e \in {x \in storage : x.k = k}}
      [] backend = "macos" ->
            {from_utf8_lossy(i.data) :
                i \in {x \in keychain : x.svce = k[1] /\ x.acct = k[2]}}
      [] OTHER -> {}

\* the entries the store instance holds for key k
Entries(k) ==
    CASE backend = "fallback" -> {x \in storage : x.k = k}
      [] backend = "macos" -> {x \in keychain : x.svce = k[1] /\ x.acct = k[2]}
      [] OTHER -> {}

Live(k) == Entries(k) # {}

(***************************************************************************)
(* The concurrent test: each task works on its own account.                *)
(* tests/integration_tests.rs test_keychain_concurrent_operations          *)
(***************************************************************************)
ScriptOps == <<"delete", "set", "get", "delete">>

\* format!("password_{}", i)
OwnPassword(c) == PasswordList[((c - 1) % Len(PasswordList)) + 1]

\* a task stops at its first failed unwrap() or assert_eq!
Stopped(c) ==
    \/ Len(sres[c]) >= Len(ScriptOps)
    \/ \E i \in 2..Len(sres[c]) : IsErr(sres[c][i])
    \/ /\ Len(sres[c]) >= 3
       /\ ~IsOkSome(sres[c][3], OwnPassword(c))

Permit(c, op, k, p) ==
    \/ mode = "free" /\ k \in Keys
    \/ mode = "wide" /\ c = 1 /\ k \in WideKeys
    \/ /\ mode = "script"
       /\ ~Stopped(c)
       /\ op = ScriptOps[Len(sres[c]) + 1]
       /\ k = OwnKey(c)
       /\ (op = "set" => p = OwnPassword(c))

\* a call of the OS keychain API on key k, as the history keeps it
NativeCall(call, k, status) ==
    [call |-> call, status |-> status,
     query |-> MacOS_query(self, call, k[1], k[2])]

\* the call of caller c returns: record it
Return(c, op, k, p, res, status, changed) ==
    /\ ev' = [op |-> op, key |-> k, pw |-> p, res |-> res,
              status |-> status, ctx |-> lastOp[k], pre |-> Live(k),
              same |-> ~changed, out |-> Keychain_map_err(op, res),
              calls |-> Keychain_invocations(res),
              native |-> IF backend = "macos"
                         THEN <<NativeCall(IF op = "get" THEN "SecItemCopyMatching"
                                           ELSE "SecItemDelete", k, status)>>
                         ELSE << >>]
    /\ sres' = IF mode = "script" THEN [sres EXCEPT ![c] = Append(@, res)]
               ELSE sres

\* what a returned delete_password tells about the key
AfterDelete(old, res) ==
    IF IsOkBool(res, TRUE) THEN Deleted
    ELSE IF old.kind \in {"never", "deleted"} THEN old
    ELSE Other

(***************************************************************************)
(* FallbackKeychain (platform/fallback.rs).  Every operation holds the     *)
(* storage mutex from its first statement to its return.                   *)
(***************************************************************************)
FallbackKeychain_new == HashMap_new

\* fault variant of Fallback_set_storage: the entry is added beside the old one
Fallback_set_storage_append(m, service, account, password) ==
    m \cup {[k |-> <<service, account>>, v |-> password]}

Fallback_set_storage(m, service, account, password) ==
    HashMap_insert(m, <<service, account>>, password)

Fallback_set_result(m, service, account, password) == Ok(Unit)

\* fault variant of Fallback_get_result: a missing key is reported as an error
Fallback_get_result_strict(m, service, account) ==
    IF HashMap_contains(m, <<service, account>>)
    THEN Ok(HashMap_get(m, <<service, account>>))
    ELSE Err(PlatformError(errSecItemNotFound))

Fallback_get_result(m, service, account) ==
    Ok(HashMap_get(m, <<service, account>>))

\* fault variant of Fallback_delete_storage: every entry of the account goes
Fallback_delete_storage_by_account(m, service, account) ==
    {e \in m : e.k[2] # account}

Fallback_delete_storage(m, service, account) ==
    HashMap_without(m, <<service, account>>)

Fallback_delete_result(m, service, account) ==
    Ok(HashMap_remove(m, <<service, account>>).some)

FallbackKeychain_set_password(c, service, account, password) ==
    LET k == <<service, account>>
        res == Fallback_set_result(storage, service, account, password)
        new == Fallback_set_storage(storage, service, account, password)
    IN  /\ backend = "fallback"
        /\ pc[c] = "idle"
        /\ Permit(c, "set", k, password)
        /\ storage' = new
        /\ lastOp' = [lastOp EXCEPT ![k] =
                        IF IsOk(res)
                        THEN WasSet(password) ELSE Other]
        /\ Return(c, "set", k, password, res, errSecSuccess, new # storage)
        /\ UNCHANGED <<two, factory, cliVars, mockVars, backend, self, authorized, keychain, pc, pend, mode>>

FallbackKeychain_get_password(c, service, account) ==
    LET k == <<service, account>>
        res == Fallback_get_result(storage, service, account)
    IN  /\ backend = "fallback"
        /\ pc[c] = "idle"
        /\ Permit(c, "get", k, << >>)
        /\ Return(c, "get", k, << >>, res, errSecSuccess, FALSE)
        /\ UNCHANGED <<two, factory, cliVars, mockVars, backend, self, authorized, storage, keychain, pc, pend,
                       lastOp, mode>>

FallbackKeychain_delete_password(c, service, account) ==
    LET k == <<service, account>>
        res == Fallback_delete_result(storage, service, account)
        new == Fallback_delete_storage(storage, service, account)
    IN  /\ backend = "fallback"
        /\ pc[c] = "idle"
        /\ Permit(c, "delete", k, << >>)
        /\ storage' = new
        /\ lastOp' = [lastOp EXCEPT ![k] = AfterDelete(@, res)]
        /\ Return(c, "delete", k, << >>, res, errSecSuccess, new # storage)
        /\ UNCHANGED <<two, factory, cliVars, mockVars, backend, self, authorized, keychain, pc, pend, mode>>

(***************************************************************************)
(* MacOSKeychain (platform/macos.rs).  No lock: every native call is one   *)
(* step, and set_password is two of them.                                  *)
(***************************************************************************)
\* fault variant of MacOS_delete_result: no arm for errSecItemNotFound
MacOS_delete_result_strict(status) ==
    IF status = errSecSuccess THEN Ok(TRUE) ELSE Err(PlatformError(status))

\* delete_password: the match on delete_generic_password's result
MacOS_delete_result(status) ==
    IF status = errSecSuccess THEN Ok(TRUE)
    ELSE IF status = errSecItemNotFound THEN Ok(FALSE)
    ELSE Err(PlatformError(status))

\* fault variant of MacOS_get_result: no branch for errSecItemNotFound
MacOS_get_result_strict(status, data) ==
    IF status = errSecSuccess THEN Ok(Some(from_utf8_lossy(data)))
    ELSE Err(PlatformError(status))

\* get_password: the if-chain on SecItemCopyMatching's status
MacOS_get_result(status, data) ==
    IF status = errSecItemNotFound THEN Ok(None)
    ELSE IF status = errSecSuccess THEN Ok(Some(from_utf8_lossy(data)))
    ELSE Err(PlatformError(status))

\* fault variant of MacOS_set_result: an item that is there already counts
\* as stored
MacOS_set_result_duplicate_ok(status) ==
    IF status \in {errSecSuccess, errSecDuplicateItem} THEN Ok(Unit)
    ELSE Err(PlatformError(status))

\* set_password: the if on SecItemAdd's status
MacOS_set_result(status) ==
    IF status = errSecSuccess THEN Ok(Unit) ELSE Err(PlatformError(status))

\* format!("{} ({})", service, account)
MacOS_label(service, account) == <<service, " (", account, ")">>

\* set_password, first statement: let _ = self.delete_password(..).await
MacOSKeychain_set_password_delete(c, service, account, password) ==
    LET k == <<service, account>>
        d == delete_generic_password(keychain, authorized, service, account)
    IN  /\ backend = "macos"
        /\ pc[c] = "idle"
        /\ Permit(c, "set", k, password)
        /\ keychain' = d[2]
        /\ pc' = [pc EXCEPT ![c] = "add"]
        /\ pend' = [pend EXCEPT ![c] =
                      [key |-> k, pw |-> password, old |-> lastOp[k],
                       native |-> <<NativeCall("SecItemDelete", k, d[1])>>]]
        /\ lastOp' = [lastOp EXCEPT ![k] = InFlight(c)]
        /\ ev' = NoEvent
        /\ UNCHANGED <<two, factory, cliVars, mockVars, backend, self, authorized, storage, mode, sres>>

\* set_password, the rest: build the query, SecItemAdd, map the status
MacOSKeychain_set_password_add(c) ==
    LET k == pend[c].key
        password == pend[c].pw
        query == MacOS_query(self, "SecItemAdd", k[1], k[2])
        alone == lastOp[k] = InFlight(c)
    IN  /\ backend = "macos"
        /\ pc[c] = "add"
        /\ \E a \in SecItemAdd_outcomes(keychain, authorized, query,
                                        as_bytes(password),
                                        MacOS_label(k[1], k[2])) :
              LET res == MacOS_set_result(a[1])
              IN  /\ keychain' = a[2]
                  /\ lastOp' = [lastOp EXCEPT ![k] =
                                  IF IsOk(res)
                                  THEN WasSet(password) ELSE Other]
                  /\ ev' = [op |-> "set", key |-> k, pw |-> password,
                            res |-> res, status |-> a[1],
                            ctx |-> IF alone THEN pend[c].old ELSE Other,
                            pre |-> Live(k),
                            same |-> a[2] = keychain,
                            out |-> Keychain_map_err("set", res),
                            calls |-> Keychain_invocations(res),
                            native |-> Append(pend[c].native,
                                              NativeCall("SecItemAdd", k, a[1]))]
                  /\ sres' = IF mode = "script"
                             THEN [sres EXCEPT ![c] = Append(@, res)]
                             ELSE sres
        /\ pc' = [pc EXCEPT ![c] = "idle"]
        /\ pend' = [pend EXCEPT ![c] = NoPend]
        /\ UNCHANGED <<two, factory, cliVars, mockVars, backend, self, authorized, storage, mode>>

MacOSKeychain_get_password(c, service, account) ==
    LET k == <<service, account>>
        query == MacOS_query(self, "SecItemCopyMatching", service, account)
    IN  /\ backend = "macos"
        /\ pc[c] = "idle"
        /\ Permit(c, "get", k, << >>)
        /\ \E out \in SecItemCopyMatching(keychain, authorized, query) :
              Return(c, "get", k, << >>, MacOS_get_result(out[1], out[2]),
                     out[1], FALSE)
        /\ UNCHANGED <<two, factory, cliVars, mockVars, backend, self, authorized, storage, keychain, pc, pend,
                       lastOp, mode>>

MacOSKeychain_delete_password(c, service, account) ==
    LET k == <<service, account>>
        d == delete_generic_password(keychain, authorized, service, account)
        res == MacOS_delete_result(d[1])
    IN  /\ backend = "macos"
        /\ pc[c] = "idle"
        /\ Permit(c, "delete", k, << >>)
        /\ keychain' = d[2]
        /\ lastOp' = [lastOp EXCEPT ![k] = AfterDelete(@, res)]
        /\ Return(c, "delete", k, << >>, res, d[1], d[2] # keychain)
        /\ UNCHANGED <<two, factory, cliVars, mockVars, backend, self, authorized, storage, pc, pend, mode>>

(***************************************************************************)
(* LinuxKeychain (platform/linux.rs): the unimplemented stub.              *)
(***************************************************************************)
\* fault variant of Linux_result: the stub answers as if nothing were stored
Linux_result_absent == Ok(None)

Linux_result == Err(Unsupported)

LinuxKeychain_set_password(c, service, account, password) ==
    LET k == <<service, account>>
    IN  /\ backend = "linux"
        /\ pc[c] = "idle"
        /\ Permit(c, "set", k, password)
        /\ lastOp' = [lastOp EXCEPT ![k] = Other]
        /\ Return(c, "set", k, password, Linux_result, errSecSuccess, FALSE)
        /\ UNCHANGED <<two, factory, cliVars, mockVars, backend, self, authorized, storage, keychain, pc, pend,
                       mode>>

LinuxKeychain_get_password(c, service, account) ==
    LET k == <<service, account>>
    IN  /\ backend = "linux"
        /\ pc[c] = "idle"
        /\ Permit(c, "get", k, << >>)
        /\ Return(c, "get", k, << >>, Linux_result, errSecSuccess, FALSE)
        /\ UNCHANGED <<two, factory, cliVars, mockVars, backend, self, authorized, storage, keychain, pc, pend,
                       lastOp, mode>>

LinuxKeychain_delete_password(c, service, account) ==
    LET k == <<service, account>>
    IN  /\ backend = "linux"
        /\ pc[c] = "idle"
        /\ Permit(c, "delete", k, << >>)
        /\ lastOp' = [lastOp EXCEPT ![k] = AfterDelete(@, Linux_result)]
        /\ Return(c, "delete", k, << >>, Linux_result, errSecSuccess, FALSE)
        /\ UNCHANGED <<two, factory, cliVars, mockVars, backend, self, authorized, storage, keychain, pc, pend,
                       mode>>

\* find_credentials / find_by_account of the stub
LinuxKeychain_find_credentials(c, service) ==
    /\ backend = "linux"
    /\ pc[c] = "idle"
    /\ mode = "free"
    /\ ev' = [NoEvent EXCEPT
                 !.op = "find_credentials",
                 !.key = <<service, << >>>>,
                 !.res = Linux_result,
                 !.out = Keychain_map_err("find_credentials", Linux_result),
                 !.calls = Keychain_invocations(Linux_result)]
    /\ UNCHANGED <<two, factory, cliVars, mockVars, backend, self, authorized,
                   storage, keychain, pc, pend, lastOp, mode, sres>>

LinuxKeychain_find_by_account(c, account) ==
    /\ backend = "linux"
    /\ pc[c] = "idle"
    /\ mode = "free"
    /\ ev' = [NoEvent EXCEPT
                 !.op = "find_by_account",
                 !.key = <<"", account>>,
                 !.res = Linux_result,
                 !.out = Keychain_map_err("find_by_account", Linux_result),
                 !.calls = Keychain_invocations(Linux_result)]
    /\ UNCHANGED <<two, factory, cliVars, mockVars, backend, self, authorized,
                   storage, keychain, pc, pend, lastOp, mode, sres>>

\* fault variant of LinuxKeychain_new: the stub's constructor succeeds
LinuxKeychain_new_ok(options) ==
    Ok([backend |-> "linux", self |-> MacOSKeychain_new(options)])

\* LinuxKeychain::new: always the error, whatever the options
LinuxKeychain_new(options) ==
    Err([kind |-> "Unsupported", code |-> 0,
         msg |-> <<"Linux keychain support not yet implemented.",
                   "Use fallback.">>])

\* platform/windows.rs is not among the sources; the stub as the
\* specification describes it: construction fails with Unsupported and a
\* message telling the caller to use the fallback
WindowsKeychain_new(options) ==
    Err([kind |-> "Unsupported", code |-> 0,
         msg |-> <<"Windows keychain support not yet implemented.",
                   "Use fallback.">>])

(***************************************************************************)
(* The factory (platform/mod.rs create_keychain, called by Keychain::new). *)
(* The cfg(target_os) blocks leave exactly one constructor call in a       *)
(* build; its error is returned by `?`.                                    *)
(***************************************************************************)
TargetOS == {"macos", "linux", "windows", "other"}

\* fault variant of create_keychain: a failed construction is replaced by
\* the fallback
create_keychain_or_fallback(target_os, options) ==
    IF target_os = "macos"
    THEN Ok([backend |-> "macos", self |-> MacOSKeychain_new(options)])
    ELSE Ok([backend |-> "fallback",
             self |-> MacOSKeychain_new([team_id |-> None,
                                         access_group |-> None,
                                         synchronizable |-> None])])

\* Ok([backend, instance]) or the constructor's error
create_keychain(target_os, options) ==
    CASE target_os = "macos" ->
            Ok([backend |-> "macos", self |-> MacOSKeychain_new(options)])
      [] target_os = "linux" -> LinuxKeychain_new(options)
      [] target_os = "windows" -> WindowsKeychain_new(options)
      [] OTHER ->
            Ok([backend |-> "fallback",
                self |-> MacOSKeychain_new([team_id |-> None,
                                            access_group |-> None,
                                            synchronizable |-> None])])

\* a store instance built directly from its type, not through the factory
Direct == [target_os |-> "any", via |-> "direct", result |-> None]

\* Keychain::new(options): platform = create_keychain(options)?; the store
\* is bound to the backend returned.  No instance exists after an error.
Keychain_new(options) ==
    LET r == create_keychain(factory.target_os, options)
    IN  /\ factory.via = "factory"
        /\ backend = "none"
        /\ factory' = [factory EXCEPT !.result = Some(r)]
        /\ backend' = IF IsOk(r) THEN r.val.backend ELSE backend
        /\ self' = IF IsOk(r) THEN r.val.self ELSE self
        /\ ev' = NoEvent
        /\ UNCHANGED <<two, cliVars, mockVars, authorized, storage, keychain,
                       pc, pend, lastOp, mode, sres>>

(***************************************************************************)
(* MockKeychain (platform/tests/mod.rs): the account-keyed test double of  *)
(* the PlatformKeychain trait.  Every operation takes the storage lock     *)
(* first and keeps it to its return.                                       *)
(***************************************************************************)
MockAccounts == {<<"a", "_", "1">>, <<"a", "_", "2">>, <<"A", "_", "1">>}

MockMetadata == {None, Some([label |-> "Test Label"])}

Prefixes ==
    {<< >>, <<"a", "_">>, <<"A", "_">>, <<"a", "_", "1">>, <<"x">>,
     <<"a", "_", "1", "0">>}

\* Option<FindQuery>; the mock reads account_prefix alone
FindQueries ==
    {None,
     Some([account_prefix |-> None, environment |-> None, team_id |-> None,
           access_group |-> None])}
    \cup {Some([account_prefix |-> Some(pre), environment |-> None,
                team_id |-> None, access_group |-> None]) : pre \in Prefixes}

\* u8::to_ascii_lowercase on the letters of the accounts
to_ascii_lowercase(ch) == IF ch = "A" THEN "a" ELSE ch

\* fault variant of starts_with: the comparison ignores ASCII case
starts_with_ignore_ascii_case(str, prefix) ==
    /\ Len(prefix) <= Len(str)
    /\ \A i \in 1..Len(prefix) :
          to_ascii_lowercase(str[i]) = to_ascii_lowercase(prefix[i])

\* str::starts_with
starts_with(str, prefix) ==
    /\ Len(prefix) <= Len(str)
    /\ \A i \in 1..Len(prefix) : str[i] = prefix[i]

\* the sequences that list every element of S once: the orders in which
\* HashMap::iter may visit the entries
Orders(S) ==
    {q \in [1..Cardinality(S) -> S] : \A i, j \in DOMAIN q : i # j => q[i] # q[j]}

\* MockKeychain::new / MockKeychain::with_failures
MockKeychain_with_failures(fail_on_set, fail_on_get) ==
    [storage |-> HashMap_new, metadata |-> HashMap_new,
     fail_on_set |-> fail_on_set, fail_on_get |-> fail_on_get]

\* q.account_prefix.as_ref().map_or(true, |prefix| account.starts_with(prefix))
should_include(account, query) ==
    IF query.some
    THEN IF query.v.account_prefix.some
         THEN starts_with(account, query.v.account_prefix.v)
         ELSE TRUE
    ELSE TRUE

Mock_entry(m, account, password) ==
    [service |-> "mock-service", account |-> account, password |-> password,
     metadata |-> HashMap_get(m.metadata, account)]

\* find_entries: the entries pushed while iterating the storage
Mock_find_entries(m, query) ==
    {Mock_entry(m, e.k, e.v) : e \in {x \in m.storage : should_include(x.k, query)}}

\* password, metadata: the arguments of a set_password
NoMockEvent ==
    [op |-> "none", account |-> << >>, query |-> None, res |-> Ok(Unit),
     password |-> << >>, metadata |-> None]

MockReturn(op, account, query, res) ==
    mret' = [NoMockEvent EXCEPT !.op = op, !.account = account,
                                !.query = query, !.res = res]

MockReturnSet(account, password, metadata, res) ==
    mret' = [NoMockEvent EXCEPT !.op = "set", !.account = account,
                                !.res = res, !.password = password,
                                !.metadata = metadata]

MockKeychain_set_password(account, password, metadata) ==
    /\ IF mock.fail_on_set
       THEN /\ MockReturnSet(account, password, metadata, Err(AccessDenied))
            /\ UNCHANGED mock
       ELSE /\ mock' = [mock EXCEPT
                  !.storage = HashMap_insert(@, account, password),
                  !.metadata = IF metadata.some
                               THEN HashMap_insert(@, account, metadata.v)
                               ELSE @]
            /\ MockReturnSet(account, password, metadata, Ok(Unit))
    /\ UNCHANGED <<locks, cliVars, storeVars>>

MockKeychain_get_password(account) ==
    /\ MockReturn("get", account, None,
                  IF mock.fail_on_get THEN Err(AccessDenied)
                  ELSE Ok(HashMap_get(mock.storage, account)))
    /\ UNCHANGED <<mock, locks, cliVars, storeVars>>

MockKeychain_delete_password(account) ==
    /\ mock' = [mock EXCEPT !.storage = HashMap_without(@, account),
                            !.metadata = HashMap_without(@, account)]
    /\ MockReturn("delete", account, None,
                  Ok(HashMap_remove(mock.storage, account).some))
    /\ UNCHANGED <<locks, cliVars, storeVars>>

\* get_entry: the stored password with whatever metadata the map holds
Mock_get_entry(m, account) ==
    IF HashMap_get(m.storage, account).some
    THEN Ok(Some(Mock_entry(m, account, HashMap_get(m.storage, account).v)))
    ELSE Ok(None)

MockKeychain_get_entry(account) ==
    /\ MockReturn("get_entry", account, None, Mock_get_entry(mock, account))
    /\ UNCHANGED <<mock, locks, cliVars, storeVars>>

MockKeychain_find_entries(query) ==
    /\ \E entries \in Orders(Mock_find_entries(mock, query)) :
          MockReturn("find", << >>, query, Ok(entries))
    /\ UNCHANGED <<mock, locks, cliVars, storeVars>>

(***************************************************************************)
(* The CLI's store wrapper (src/keychain.rs) over the keyring crate.  An   *)
(* Entry names a credential by target, service and user; Entry::new uses   *)
(* the crate's default target.  What a named target means is the           *)
(* platform store's choice: it is part of the credential's identity, or    *)
(* it is ignored, or an unknown target is refused (target_mode).           *)
(***************************************************************************)
TargetModes == {"distinct", "ignored", "invalid"}

DefaultTarget == "default"

CliEnvs == {"development", "production"}

CliKeys == {"API_KEY", "DB_URL"}

CliValues == {"value1", "value2"}

NoEntry == [kind |-> "NoEntry", code |-> 0]

Invalid == [kind |-> "Invalid", code |-> 0]

\* std::process::exit(1)
Exit1 == [kind |-> "exit", code |-> 1]

\* GitPathResolver::generate_service_name in a repository o/r
generate_service_name(environment) == <<"github.com/o/r", "?env=", environment>>

\* Entry::new(service, user)
Entry_new(service, user) ==
    Ok([target |-> DefaultTarget, service |-> service, user |-> user])

\* Entry::new_with_target(target, service, user)
Entry_new_with_target(target_mode, target, service, user) ==
    CASE target_mode = "invalid" -> Err(Invalid)
      [] target_mode = "ignored" -> Entry_new(service, user)
      [] OTHER -> Ok([target |-> target, service |-> service, user |-> user])

\* keyring::Error::PlatformFailure: the platform store refused the call
PlatformFailure == [kind |-> "PlatformFailure", code |-> 0]

\* Entry::set_password: <<result, store afterwards>>; cli.faults holds the
\* calls the platform store refuses, as <<"set" or "get", user>>
Entry_set_password(store, entry, password) ==
    IF <<"set", entry.user>> \in cli.faults THEN <<Err(PlatformFailure), store>>
    ELSE <<Ok(Unit), HashMap_insert(store, entry, password)>>

\* Entry::get_password: Err(NoEntry) when nothing is stored
Entry_get_password(store, entry) ==
    IF <<"get", entry.user>> \in cli.faults THEN Err(PlatformFailure)
    ELSE IF HashMap_contains(store, entry)
    THEN Ok(HashMap_get(store, entry).v)
    ELSE Err(NoEntry)

\* Entry::delete_credential: <<result, store afterwards>>
Entry_delete_credential(store, entry) ==
    IF HashMap_contains(store, entry)
    THEN <<Ok(Unit), HashMap_without(store, entry)>>
    ELSE <<Err(NoEntry), store>>

\* KeychainManager::get_var: every error of get_password is returned, with
\* context; the arm mapping NoEntry to Ok(None) is commented out
get_var(target_mode, store, service_name, key) ==
    LET entry == Entry_new_with_target(target_mode, "Protected",
                                       service_name, key)
    IN  IF IsErr(entry) THEN entry
        ELSE LET r == Entry_get_password(store, entry.val)
             IN  IF IsOk(r) THEN Ok(Some(r.val)) ELSE r

\* fault variant of set_var: the value is not read back
set_var_no_read_back(target_mode, store, service_name, key, value) ==
    LET entry == Entry_new_with_target(target_mode, "Protected",
                                       service_name, key)
    IN  IF IsErr(entry) THEN <<entry, store>>
        ELSE Entry_set_password(store, entry.val, value)

\* KeychainManager::set_var: <<result, store afterwards>>
set_var(target_mode, store, service_name, key, value) ==
    LET entry == Entry_new_with_target(target_mode, "Protected",
                                       service_name, key)
    IN  IF IsErr(entry) THEN <<entry, store>>
        ELSE LET w == Entry_set_password(store, entry.val, value)
                 retrieved_value == get_var(target_mode, w[2], service_name, key)
             IN  IF IsErr(w[1]) THEN w
                 ELSE IF IsErr(retrieved_value) THEN <<retrieved_value, w[2]>>
                 ELSE <<Ok(Unit), w[2]>>

\* KeychainManager::delete_var: <<result, store afterwards>>
delete_var(target_mode, store, service_name, key) ==
    LET entry == Entry_new(service_name, key)
        d == Entry_delete_credential(store, entry.val)
    IN  IF IsOk(d[1]) THEN <<Ok(TRUE), d[2]>>
        ELSE IF d[1].err.kind = "NoEntry" THEN <<Ok(FALSE), d[2]>>
        ELSE d

\* fault variant of set_vars: only the first pair is stored
set_vars_first_pair(target_mode, store, service_name, pairs, order) ==
    IF order = << >> THEN <<Ok(Unit), store>>
    ELSE set_var(target_mode, store, service_name,
                 Head(order), pairs[Head(order)])

\* KeychainManager::set_vars: one set_var per pair, in the map's iteration
\* order, stopping at the first error
RECURSIVE set_vars(_, _, _, _, _)
set_vars(target_mode, store, service_name, pairs, order) ==
    IF order = << >> THEN <<Ok(Unit), store>>
    ELSE LET r == set_var(target_mode, store, service_name,
                          Head(order), pairs[Head(order)])
         IN  IF IsErr(r[1]) THEN r
             ELSE set_vars(target_mode, r[2], service_name, pairs, Tail(order))

\* KeychainManager::clear_all: <<result, store afterwards>>
clear_all(target_mode, store, service_name) == <<Ok(Unit), store>>

\* the keys of a service that have a credential, under any target
Stored(store, service_name) ==
    {e.k.user : e \in {x \in store : x.k.service = service_name}}

NoCliEvent ==
    [op |-> "none", service |-> << >>, key |-> None, all |-> FALSE,
     pairs |-> << >>, res |-> Ok(Unit), stored |-> {}, after_set |-> FALSE,
     before |-> {}]

\* stored: the keys of the service that had a credential when the call began;
\* before: the credentials of the service then;
\* after_set: the call before this one was a successful set_var of the key
CliReturn(op, service_name, key, all, pairs, res) ==
    /\ cret' = [op |-> op, service |-> service_name, key |-> key, all |-> all,
                pairs |-> pairs, res |-> res,
                stored |-> Stored(cli.store, service_name),
                before |-> {x \in cli.store : x.k.service = service_name},
                after_set |-> /\ key.some
                              /\ cret.op = "set_var"
                              /\ cret.service = service_name
                              /\ cret.key = key
                              /\ IsOk(cret.res)]
    /\ UNCHANGED txt

KeychainManager_set_var(service_name, key, value) ==
    LET r == set_var(cli.target_mode, cli.store, service_name, key, value)
    IN  /\ cli' = [cli EXCEPT !.store = r[2]]
        /\ CliReturn("set_var", service_name, Some(key), FALSE, key :> value,
                     r[1])
        /\ UNCHANGED <<mockVars, storeVars>>

KeychainManager_get_var(service_name, key) ==
    /\ CliReturn("get_var", service_name, Some(key), FALSE, << >>,
                 get_var(cli.target_mode, cli.store, service_name, key))
    /\ UNCHANGED <<cli, mockVars, storeVars>>

KeychainManager_delete_var(service_name, key) ==
    LET r == delete_var(cli.target_mode, cli.store, service_name, key)
    IN  /\ cli' = [cli EXCEPT !.store = r[2]]
        /\ CliReturn("delete_var", service_name, Some(key), FALSE, << >>, r[1])
        /\ UNCHANGED <<mockVars, storeVars>>

KeychainManager_set_vars(service_name, pairs) ==
    \E order \in Orders(DOMAIN pairs) :
        LET r == set_vars(cli.target_mode, cli.store, service_name, pairs, order)
        IN  /\ cli' = [cli EXCEPT !.store = r[2]]
            /\ CliReturn("set_vars", service_name, None, FALSE, pairs, r[1])
            /\ UNCHANGED <<mockVars, storeVars>>

\* cli::handle_delete(key, env, all), env already defaulted
handle_delete(key, env, all) ==
    LET service_name == generate_service_name(env)
        r == IF all THEN clear_all(cli.target_mode, cli.store, service_name)
             ELSE IF key.some
             THEN LET d == delete_var(cli.target_mode, cli.store,
                                      service_name, key.v)
                  IN  IF IsErr(d[1]) THEN d
                      ELSE IF d[1].val THEN <<Ok(Unit), d[2]>>
                      ELSE <<Err(Exit1), d[2]>>
             ELSE <<Err(Exit1), cli.store>>
    IN  /\ cli' = [cli EXCEPT !.store = r[2]]
        /\ CliReturn("handle_delete", service_name, key, all, << >>, r[1])
        /\ UNCHANGED <<mockVars, storeVars>>

(***************************************************************************)
(* The CLI's service names (src/git_resolver.rs).  Strings are sequences   *)
(* of one-character strings, so that prefixes, suffixes, replacement and   *)
(* splitting are computed.  The working directory is given by what         *)
(* Repository::open and the remote lookup find in it and by its last path  *)
(* component.                                                              *)
(***************************************************************************)
\* no text function has been called; arg is what the next call is given
NoText == [fn |-> "none", arg |-> << >>, out |-> << >>]

\* string literals of git_resolver.rs
GIT_AT == <<"g", "i", "t", "@">>

HTTPS == <<"h", "t", "t", "p", "s", ":", "/", "/">>

DOT_GIT == <<".", "g", "i", "t">>

GITHUB_COM == <<"g", "i", "t", "h", "u", "b", ".", "c", "o", "m">>

LOCAL_SLASH == <<"l", "o", "c", "a", "l", "/">>

UNKNOWN == <<"u", "n", "k", "n", "o", "w", "n">>

ENV_SEP == <<"?", "e", "n", "v", "=">>

DEVELOPMENT == <<"d", "e", "v", "e", "l", "o", "p", "m", "e", "n", "t">>

\* environments (--env), last components of working directories
TextEnvs ==
    {DEVELOPMENT, <<"p">>, << >>, <<"a", "?", "e", "n", "v", "=", "b">>, <<"a", "?", "b">>}

DirNames == {None, Some(<<"d">>), Some(<<"d", "?", "x">>)}

\* str::ends_with
ends_with(str, suffix) ==
    /\ Len(suffix) <= Len(str)
    /\ SubSeq(str, Len(str) - Len(suffix) + 1, Len(str)) = suffix

\* the characters of a text
Chars(str) == {str[i] : i \in DOMAIN str}

\* str::find: the first position at which pat begins, 0 when there is none
find(str, pat) ==
    LET hits == {i \in 1..(Len(str) - Len(pat) + 1) :
                    SubSeq(str, i, i + Len(pat) - 1) = pat}
    IN  IF hits = {} THEN 0 ELSE CHOOSE i \in hits : \A j \in hits : i <= j

\* str::split(pat), collected: the pieces between the occurrences of pat
RECURSIVE split(_, _)
split(str, pat) ==
    LET i == find(str, pat)
    IN  IF i = 0 THEN <<str>>
        ELSE <<SubSeq(str, 1, i - 1)>>
             \o split(SubSeq(str, i + Len(pat), Len(str)), pat)

\* str::replace(from, to)
RECURSIVE replace(_, _, _)
replace(str, from, to) ==
    LET i == find(str, from)
    IN  IF i = 0 THEN str
        ELSE SubSeq(str, 1, i - 1) \o to
             \o replace(SubSeq(str, i + Len(from), Len(str)), from, to)

\* str::trim_end_matches(pat)
RECURSIVE trim_end_matches(_, _)
trim_end_matches(str, pat) ==
    IF ends_with(str, pat)
    THEN trim_end_matches(SubSeq(str, 1, Len(str) - Len(pat)), pat)
    ELSE str

\* the pieces of str joined with sep between them
RECURSIVE join(_, _)
join(pieces, sep) ==
    IF Len(pieces) = 0 THEN << >>
    ELSE IF Len(pieces) = 1 THEN pieces[1]
    ELSE pieces[1] \o sep \o join(Tail(pieces), sep)

AnyhowError == [kind |-> "anyhow", code |-> 0]

\* the host of an authority: what follows the user information and
\* precedes the port
RECURSIVE Url_host(_)
Url_host(authority) ==
    IF find(authority, <<"@">>) # 0
    THEN Url_host(SubSeq(authority, find(authority, <<"@">>) + 1, Len(authority)))
    ELSE IF find(authority, <<":">>) # 0
    THEN SubSeq(authority, 1, find(authority, <<":">>) - 1)
    ELSE authority

\* a URL "scheme://after": the authority runs to the first '/' (at slash, 0
\* when there is none); a file URL may have no host; the path ends at '?'
\* or '#' and its segments lie between its '/' after the first
Url_hierarchical(scheme, after, slash) ==
    IF slash # 1 /\ Url_host(SubSeq(after, 1, IF slash = 0 THEN Len(after)
                                                ELSE slash - 1)) # << >>
    THEN Ok([host |-> Some(Url_host(SubSeq(after, 1,
                                           IF slash = 0 THEN Len(after)
                                           ELSE slash - 1))),
             path_segments |->
                 Some(split(split(split(SubSeq(after, slash + 1,
                                               IF slash = 0 THEN 0 ELSE Len(after)),
                                        <<"?">>)[1], <<"#">>)[1], <<"/">>))])
    ELSE IF scheme = <<"f", "i", "l", "e">>
    THEN Ok([host |-> None,
             path_segments |->
                 Some(split(split(split(SubSeq(after, slash + 1,
                                               IF slash = 0 THEN 0 ELSE Len(after)),
                                        <<"?">>)[1], <<"#">>)[1], <<"/">>))])
    ELSE Err(AnyhowError)

\* a URL whose first ':' is at colon (0 when there is none)
Url_with_scheme(str, colon) ==
    IF colon <= 1 \/ find(SubSeq(str, 1, colon - 1), <<"/">>) # 0
    THEN Err(AnyhowError)
    ELSE IF ~starts_with(SubSeq(str, colon + 1, Len(str)), <<"/", "/">>)
    THEN Ok([host |-> None, path_segments |-> None])
    ELSE Url_hierarchical(SubSeq(str, 1, colon - 1),
                          SubSeq(str, colon + 3, Len(str)),
                          find(SubSeq(str, colon + 3, Len(str)), <<"/">>))

\* Url::parse with url.host_str() and url.path_segments(), of the url crate:
\* a string without a scheme is refused (relative URL without a base), and
\* a URL without "//" after its scheme has no path segments (None)
Url_parse(str) == Url_with_scheme(str, find(str, <<":">>))

\* GitPathResolver::parse_git_url
parse_git_url(url_str) ==
    LET s1 == IF starts_with(url_str, GIT_AT)
              THEN replace(replace(url_str, <<":">>, <<"/">>), GIT_AT, HTTPS)
              ELSE url_str
        s2 == trim_end_matches(s1, DOT_GIT)
        url == Url_parse(s2)
    IN  IF IsErr(url) THEN url
        ELSE IF ~url.val.path_segments.some THEN Err(AnyhowError)
        ELSE LET path_segments == url.val.path_segments.v
                 n == Len(path_segments)
             IN  IF n >= 2
                 THEN LET owner == path_segments[n - 1]
                          name == path_segments[n]
                          host == IF url.val.host.some THEN url.val.host.v
                                  ELSE GITHUB_COM
                      IN  Ok(Some([owner |-> owner, name |-> name,
                                   full_name |-> host \o <<"/">> \o owner
                                                 \o <<"/">> \o name]))
                 ELSE Ok(None)

\* GitPathResolver::get_git_info in a working directory wd: no repository,
\* a repository without a remote, a remote without a URL, or a remote URL
get_git_info(wd) ==
    CASE wd.repo = "none" -> Ok(None)
      [] wd.repo = "no_remote" -> Err(AnyhowError)
      [] wd.repo = "no_url" -> Err(AnyhowError)
      [] OTHER -> parse_git_url(wd.url)

\* fault variant of resolve_service_name: the environment is left out of
\* the name that falls back to the directory
resolve_service_name_local_bare(wd, environment) ==
    LET info == get_git_info(wd)
    IN  IF IsOk(info) /\ info.val.some
        THEN info.val.v.full_name \o ENV_SEP \o environment
        ELSE LOCAL_SLASH \o (IF wd.file_name.some THEN wd.file_name.v ELSE UNKNOWN)

\* GitPathResolver::generate_service_name of a resolver on directory wd
resolve_service_name(wd, environment) ==
    LET info == get_git_info(wd)
    IN  IF IsOk(info) /\ info.val.some
        THEN info.val.v.full_name \o ENV_SEP \o environment
        ELSE LET dir_name == IF wd.file_name.some THEN wd.file_name.v
                             ELSE UNKNOWN
             IN  LOCAL_SLASH \o dir_name \o ENV_SEP \o environment

\* GitPathResolver::extract_env_from_service
extract_env_from_service(service_name) ==
    LET pieces == split(service_name, ENV_SEP)
    IN  IF Len(pieces) >= 2 THEN pieces[2] ELSE DEVELOPMENT

\* GitPathResolver::extract_repo_from_service
extract_repo_from_service(service_name) ==
    split(service_name, <<"?">>)[1]

\* the remote of the repository: host, owner and repository name
RemoteHosts == {<<"h">>}

RemoteOwners == {<<"o">>}

RemoteNames == {<<"r">>, <<"r", ".", "g">>}

\* the URL forms of a remote of repository host/owner/name
RemoteUrl(form, host, owner, name) ==
    CASE form = "scp" -> GIT_AT \o host \o <<":">> \o owner \o <<"/">> \o name \o DOT_GIT
      [] form = "https_git" -> HTTPS \o host \o <<"/">> \o owner \o <<"/">> \o name \o DOT_GIT
      [] form = "https" -> HTTPS \o host \o <<"/">> \o owner \o <<"/">> \o name
      [] form = "ssh" -> <<"s", "s", "h", ":", "/", "/", "g", "@">> \o host
                         \o <<":", "2", "/">> \o owner \o <<"/">> \o name
      [] form = "file" -> <<"f", "i", "l", "e", ":", "/", "/", "/">> \o owner
                          \o <<"/">> \o name
      [] form = "one_segment" -> HTTPS \o host \o <<"/">> \o name
      [] form = "no_path" -> HTTPS \o host
      [] form = "no_scheme" -> host \o <<"/">> \o owner \o <<"/">> \o name
      [] OTHER -> <<"m", ":">> \o owner \o <<"/">> \o name

\* the forms in which host, owner and name are the URL's host and its last
\* two path segments
ResolvingForms == {"scp", "https_git", "https", "ssh"}

RemoteForms ==
    ResolvingForms \cup {"file", "one_segment", "no_path", "no_scheme", "opaque"}

\* the working directories of a resolver
WorkingDirs ==
    {[repo |-> r, url |-> << >>, form |-> "none", host |-> << >>,
      owner |-> << >>, name |-> << >>, file_name |-> d] :
        r \in {"none", "no_remote", "no_url"}, d \in DirNames}
    \cup {[repo |-> "remote", url |-> RemoteUrl(f, h, o, n), form |-> f,
           host |-> h, owner |-> o, name |-> n, file_name |-> d] :
            f \in RemoteForms, h \in RemoteHosts, o \in RemoteOwners,
            n \in RemoteNames, d \in DirNames}

\* generate_service_name(environment) of a resolver on directory wd
GitPathResolver_generate_service_name ==
    /\ txt.fn = "none" /\ txt.arg.kind = "resolver"
    /\ txt' = [txt EXCEPT
                 !.fn = "generate_service_name",
                 !.out = resolve_service_name(txt.arg.wd, txt.arg.environment)]
    /\ UNCHANGED <<cli, cret, mockVars, storeVars>>

\* extract_env_from_service on the name built as repo + "?env=" + environment
GitPathResolver_extract_env_from_service ==
    /\ txt.fn = "none" /\ txt.arg.kind = "built"
    /\ txt' = [txt EXCEPT
                 !.fn = "extract_env_from_service",
                 !.out = extract_env_from_service(
                             txt.arg.repo \o ENV_SEP \o txt.arg.environment)]
    /\ UNCHANGED <<cli, cret, mockVars, storeVars>>

\* extract_repo_from_service on the name built as repo + "?env=" + environment
GitPathResolver_extract_repo_from_service ==
    /\ txt.fn = "none" /\ txt.arg.kind = "built"
    /\ txt' = [txt EXCEPT
                 !.fn = "extract_repo_from_service",
                 !.out = extract_repo_from_service(
                             txt.arg.repo \o ENV_SEP \o txt.arg.environment)]
    /\ UNCHANGED <<cli, cret, mockVars, storeVars>>

\* extract_env_from_service on a name as it is
GitPathResolver_extract_env_plain ==
    /\ txt.fn = "none" /\ txt.arg.kind = "plain"
    /\ txt' = [txt EXCEPT
                 !.fn = "extract_env_plain",
                 !.out = extract_env_from_service(txt.arg.service_name)]
    /\ UNCHANGED <<cli, cret, mockVars, storeVars>>

(***************************************************************************)
(* The CLI's .env reader (src/env_parser.rs).  A file's content is a       *)
(* sequence of characters; LF, CR and TAB stand for the control            *)
(* characters, BS for the backslash, DQ and SQ for the two quotes.         *)
(***************************************************************************)
MaxLineLen == 3

MaxValueLen == 4

LF == "LF"

CR == "CR"

TAB == "TAB"

BS == "BS"

DQ == "DQ"

SQ == "SQ"

Whitespace == {" ", TAB, CR, LF}

\* a slice whose begin lies behind its end: the thread panics
Panic == Err([kind |-> "panic", code |-> 0])

\* str::trim
RECURSIVE trim(_)
trim(str) ==
    IF Len(str) = 0 THEN str
    ELSE IF str[1] \in Whitespace THEN trim(Tail(str))
    ELSE IF str[Len(str)] \in Whitespace
    THEN trim(SubSeq(str, 1, Len(str) - 1))
    ELSE str

\* str::lines: the pieces between line feeds, without a last empty piece,
\* each without a carriage return at its end
lines(content) ==
    LET pieces == split(content, <<LF>>)
        kept == IF pieces[Len(pieces)] = << >>
                THEN SubSeq(pieces, 1, Len(pieces) - 1) ELSE pieces
    IN  [i \in 1..Len(kept) |->
            IF ends_with(kept[i], <<CR>>)
            THEN SubSeq(kept[i], 1, Len(kept[i]) - 1) ELSE kept[i]]

\* EnvFileParser::find_unescaped_equals, the loop from character i on;
\* Some(position counted from 0) or None
RECURSIVE find_unescaped_equals_from(_, _, _)
find_unescaped_equals_from(chars, i, escaped) ==
    IF i > Len(chars) THEN None
    ELSE IF escaped THEN find_unescaped_equals_from(chars, i + 1, FALSE)
    ELSE IF chars[i] = BS THEN find_unescaped_equals_from(chars, i + 1, TRUE)
    ELSE IF chars[i] = "=" THEN Some(i - 1)
    ELSE find_unescaped_equals_from(chars, i + 1, FALSE)

find_unescaped_equals(str) == find_unescaped_equals_from(str, 1, FALSE)

\* EnvFileParser::unescape_value
RECURSIVE unescape_value(_)
unescape_value(str) ==
    IF Len(str) = 0 THEN << >>
    ELSE IF str[1] # BS THEN <<str[1]>> \o unescape_value(Tail(str))
    ELSE IF Len(str) = 1 THEN <<BS>>
    ELSE LET next == str[2]
             rest == unescape_value(SubSeq(str, 3, Len(str)))
         IN  CASE next = "n" -> <<LF>> \o rest
               [] next = "t" -> <<TAB>> \o rest
               [] next = "r" -> <<CR>> \o rest
               [] next = BS -> <<BS>> \o rest
               [] next = DQ -> <<DQ>> \o rest
               [] next = SQ -> <<SQ>> \o rest
               [] OTHER -> <<BS, next>> \o rest

\* EnvFileParser::unquote_value; &value[1..value.len() - 1] of a value that
\* is one quote character is the slice 1..0
unquote_value(v) ==
    LET value == trim(v)
    IN  IF \/ starts_with(value, <<DQ>>) /\ ends_with(value, <<DQ>>)
           \/ starts_with(value, <<SQ>>) /\ ends_with(value, <<SQ>>)
        THEN IF 1 > Len(value) - 1 THEN Panic
             ELSE Ok(unescape_value(SubSeq(value, 2, Len(value) - 1)))
        ELSE Ok(value)

\* EnvFileParser::parse_content, the loop over the lines from line i on
RECURSIVE parse_lines(_, _, _)
parse_lines(ls, i, map) ==
    IF i > Len(ls) THEN Ok(map)
    ELSE LET line == trim(ls[i])
             eq_pos == find_unescaped_equals(line)
             key == trim(SubSeq(line, 1, eq_pos.v))
             value == trim(SubSeq(line, eq_pos.v + 2, Len(line)))
             unquoted == unquote_value(value)
         IN  IF line = << >> \/ starts_with(line, <<"#">>)
             THEN parse_lines(ls, i + 1, map)
             ELSE IF ~eq_pos.some THEN parse_lines(ls, i + 1, map)
             ELSE IF key = << >> THEN parse_lines(ls, i + 1, map)
             ELSE IF IsErr(unquoted) THEN unquoted
             ELSE parse_lines(ls, i + 1, HashMap_insert(map, key, unquoted.val))

parse_content(content) == parse_lines(lines(content), 1, HashMap_new)

SeqsUpTo(S, n) == UNION {[1..k -> S] : k \in 0..n}

\* the lines of the files read: any short line, and KEY=value lines with
\* values of quotes, backslashes and letters
EnvLines ==
    SeqsUpTo({"K", "=", DQ, BS, "#", " "}, MaxLineLen)
    \cup {<<"K", "=">> \o v : v \in SeqsUpTo({DQ, SQ, BS, "n"}, MaxValueLen)}

\* files of one line, or of one line ahead of a line chosen from a few
EnvContents ==
    EnvLines
    \cup {l \o <<LF>> \o m : l \in EnvLines,
                            m \in {<<"K", "=", "n">>, <<"J", "=", "K", CR>>,
                                   << >>, <<"#", "K", "=">>}}

EnvFileParser_parse_content ==
    /\ txt.fn = "none" /\ txt.arg.kind = "file"
    /\ txt' = [txt EXCEPT !.fn = "parse_content",
                          !.out = parse_content(txt.arg.content)]
    /\ UNCHANGED <<cli, cret, mockVars, storeVars>>

(***************************************************************************)
(* Two FallbackKeychain instances built independently in one process.      *)
(* heap holds the tables allocated so far; refs[i] is the table instance i *)
(* owns (0 before FallbackKeychain::new); shadow[i] is what the calls made *)
(* on instance i alone have written, kept as history.                      *)
(***************************************************************************)
Instances == {1, 2}

TwoKeys == Services \X Accounts

\* fault variant of FallbackKeychain_storage: one table shared by all
FallbackKeychain_storage_singleton(heap) ==
    IF heap = << >> THEN Len(heap) + 1 ELSE Len(heap)

\* FallbackKeychain::new: storage: Mutex::new(HashMap::new()), a table of
\* its own for every instance; the index of the new table
FallbackKeychain_storage(heap) == Len(heap) + 1

\* find_credentials: the entries of a service
\* fault variant of Fallback_find_credentials: the filter is left out
Fallback_find_credentials_unfiltered(m, service) ==
    {[service |-> e.k[1], account |-> e.k[2], password |-> e.v] : e \in m}

Fallback_find_credentials(m, service) ==
    {[service |-> e.k[1], account |-> e.k[2], password |-> e.v] :
        e \in {x \in m : x.k[1] = service}}

\* find_by_account: the entries of an account
Fallback_find_by_account(m, account) ==
    {[service |-> e.k[1], account |-> e.k[2], password |-> e.v] :
        e \in {x \in m : x.k[2] = account}}

\* pre: what the instance's own calls had left for the key before the call
NoTwoEvent ==
    [op |-> "none", inst |-> 0, key |-> <<"", << >>>>, res |-> Ok(Unit),
     pre |-> None]

InitTwo ==
    two = [heap |-> << >>,
           refs |-> [i \in Instances |-> 0],
           shadow |-> [i \in Instances |-> [k \in TwoKeys |-> None]],
           ret |-> NoTwoEvent]

TwoReturn(i, op, k, res) ==
    [op |-> op, inst |-> i, key |-> k, res |-> res,
     pre |-> IF k \in TwoKeys THEN two.shadow[i][k] ELSE None]

Two_new(i) ==
    LET cell == FallbackKeychain_storage(two.heap)
    IN  /\ two.refs[i] = 0
        /\ two' = [two EXCEPT
              !.heap = IF cell > Len(@) THEN Append(@, FallbackKeychain_new)
                       ELSE @,
              !.refs[i] = cell,
              !.ret = TwoReturn(i, "new", <<"", << >>>>, Ok(Unit))]
        /\ UNCHANGED <<storeVars_but_two, mockVars, cliVars>>

Two_set_password(i, service, account, password) ==
    /\ two.refs[i] # 0
    /\ two' = [two EXCEPT
          !.heap[two.refs[i]] =
              Fallback_set_storage(@, service, account, password),
          !.shadow[i][<<service, account>>] = Some(password),
          !.ret = TwoReturn(i, "set", <<service, account>>,
                      Fallback_set_result(two.heap[two.refs[i]],
                                          service, account, password))]
    /\ UNCHANGED <<storeVars_but_two, mockVars, cliVars>>

Two_get_password(i, service, account) ==
    /\ two.refs[i] # 0
    /\ two' = [two EXCEPT
          !.ret = TwoReturn(i, "get", <<service, account>>,
                      Fallback_get_result(two.heap[two.refs[i]],
                                          service, account))]
    /\ UNCHANGED <<storeVars_but_two, mockVars, cliVars>>

Two_delete_password(i, service, account) ==
    /\ two.refs[i] # 0
    /\ two' = [two EXCEPT
          !.heap[two.refs[i]] = Fallback_delete_storage(@, service, account),
          !.shadow[i][<<service, account>>] = None,
          !.ret = TwoReturn(i, "delete", <<service, account>>,
                      Fallback_delete_result(two.heap[two.refs[i]],
                                             service, account))]
    /\ UNCHANGED <<storeVars_but_two, mockVars, cliVars>>

Two_find_credentials(i, service) ==
    /\ two.refs[i] # 0
    /\ \E entries \in Orders(Fallback_find_credentials(two.heap[two.refs[i]],
                                                       service)) :
          two' = [two EXCEPT
              !.ret = TwoReturn(i, "find_credentials", <<service, << >>>>,
                                Ok(entries))]
    /\ UNCHANGED <<storeVars_but_two, mockVars, cliVars>>

Two_find_by_account(i, account) ==
    /\ two.refs[i] # 0
    /\ \E entries \in Orders(Fallback_find_by_account(two.heap[two.refs[i]],
                                                      account)) :
          two' = [two EXCEPT
              !.ret = TwoReturn(i, "find_by_account", <<"", account>>,
                                Ok(entries))]
    /\ UNCHANGED <<storeVars_but_two, mockVars, cliVars>>

(***************************************************************************)
(* Writing .env files (src/env_parser.rs 111-184).  A map of variables is  *)
(* a set of [k, v] records, as parse_content returns it.                   *)
(***************************************************************************)
\* quote_value: quoted when the value has a space, newline, tab or quote;
\* only the double quotes are escaped
quote_value(value) ==
    IF Chars(value) \cap {" ", LF, TAB, DQ, SQ} # {}
    THEN <<DQ>> \o replace(value, <<DQ>>, <<BS, DQ>>) \o <<DQ>>
    ELSE value

\* format!("{}={}", key, quote_value(value))
format_line(key, value) == key \o <<"=">> \o quote_value(value)

\* the byte of a character, for the order of Vec::sort on Strings
byte(ch) ==
    CASE ch = TAB -> 9
      [] ch = LF -> 10
      [] ch = CR -> 13
      [] ch = " " -> 32
      [] ch = DQ -> 34
      [] ch = "#" -> 35
      [] ch = SQ -> 39
      [] ch = "=" -> 61
      [] ch = "J" -> 74
      [] ch = "K" -> 75
      [] ch = "L" -> 76
      [] ch = BS -> 92
      [] OTHER -> 110

\* a < b for Strings
RECURSIVE str_lt(_, _)
str_lt(a, b) ==
    IF b = << >> THEN FALSE
    ELSE IF a = << >> THEN TRUE
    ELSE IF byte(a[1]) # byte(b[1]) THEN byte(a[1]) < byte(b[1])
    ELSE str_lt(Tail(a), Tail(b))

\* lines.sort() of distinct lines
sort(S) ==
    CHOOSE o \in Orders(S) :
        \A i, j \in DOMAIN o : i < j => str_lt(o[i], o[j])

\* create_content(vars): one line per variable, sorted, joined with "\n"
create_content(variables) ==
    join(sort({format_line(e.k, e.v) : e \in variables}), <<LF>>)

\* the loop of update_content over the lines of the original
RECURSIVE update_lines(_, _, _)
update_lines(ls, i, variables) ==
    IF i > Len(ls) THEN << >>
    ELSE LET line == ls[i]
             trimmed == trim(line)
             eq_pos == find_unescaped_equals(trimmed)
             key == trim(SubSeq(trimmed, 1, eq_pos.v))
             new_value == HashMap_get(variables, key)
             kept == IF trimmed = << >> \/ starts_with(trimmed, <<"#">>)
                     THEN line
                     ELSE IF eq_pos.some /\ new_value.some
                     THEN format_line(key, new_value.v)
                     ELSE line
         IN  <<kept>> \o update_lines(ls, i + 1, variables)

\* processed_keys: the keys of vars that a line of the original has
processed_keys(ls, variables) ==
    {e.k : e \in {x \in variables :
        \E i \in DOMAIN ls :
            LET trimmed == trim(ls[i])
                eq_pos == find_unescaped_equals(trimmed)
            IN  /\ trimmed # << >>
                /\ ~starts_with(trimmed, <<"#">>)
                /\ eq_pos.some
                /\ trim(SubSeq(trimmed, 1, eq_pos.v)) = x.k}}

\* update_content(original, vars); order: the iteration order of vars
update_content(original, variables, order) ==
    LET ls == lines(original)
        done == processed_keys(ls, variables)
        added == [i \in DOMAIN order |->
                     IF order[i] \in done THEN << >>
                     ELSE <<format_line(order[i], HashMap_get(variables, order[i]).v)>>]
        flat[i \in 0..Len(order)] ==
            IF i = 0 THEN << >> ELSE flat[i - 1] \o added[i]
    IN  Ok(join(update_lines(ls, 1, variables) \o flat[Len(order)], <<LF>>))

\* the values written
EnvValues == SeqsUpTo({" ", DQ, BS, "n", LF}, MaxLineLen)

\* the maps written: one variable with any value, or two
EnvVars ==
    {{[k |-> <<"K">>, v |-> v]} : v \in EnvValues}
    \cup {{[k |-> <<"K">>, v |-> a], [k |-> <<"J">>, v |-> b]} :
             a \in {<<"n">>, <<"n", " ">>}, b \in {<< >>, <<DQ>>}}
    \cup {{}}

\* the lines of the files updated
UpdateLines ==
    {<<"K", "=", "v">>, <<"#", "K">>, << >>, <<"J", " ", "=", "w">>,
     <<"n", "o">>, <<" ", "K", "=", "x">>}

\* the files updated: up to two lines, the last one ended or not
UpdateOriginals ==
    {<< >>} \cup UpdateLines
    \cup {a \o <<LF>> \o b : a \in UpdateLines, b \in UpdateLines}
    \cup {a \o <<LF, LF>> : a \in UpdateLines}

\* the maps they are updated with
UpdateVars ==
    {{}, {[k |-> <<"K">>, v |-> <<"n">>]},
     {[k |-> <<"K">>, v |-> <<"n", " ", "n">>]},
     {[k |-> <<"J">>, v |-> <<DQ>>]},
     {[k |-> <<"K">>, v |-> <<"n">>], [k |-> <<"L">>, v |-> <<"n">>]},
     {[k |-> <<"L">>, v |-> <<"n">>], [k |-> <<"J">>, v |-> << >>]},
     {[k |-> <<"K">>, v |-> <<BS, "n", " ">>]},
     {[k |-> <<"L">>, v |-> <<"n", LF, "J", "=", "n">>]}}

\* write_file on a new path, read back: create_content, then parse_content
EnvFileParser_create_content ==
    /\ txt.fn = "none" /\ txt.arg.kind = "vars"
    /\ txt' = [txt EXCEPT
                 !.fn = "create_content",
                 !.out = [content |-> create_content(txt.arg.vars),
                          parsed |-> parse_content(create_content(txt.arg.vars))]]
    /\ UNCHANGED <<cli, cret, mockVars, storeVars>>

\* write_file on an existing path, read back: update_content, then
\* parse_content
EnvFileParser_update_content ==
    /\ txt.fn = "none" /\ txt.arg.kind = "update"
    /\ \E order \in Orders({e.k : e \in txt.arg.vars}) :
          LET content == update_content(txt.arg.original, txt.arg.vars, order)
          IN  txt' = [txt EXCEPT
                        !.fn = "update_content",
                        !.out = [content |-> content,
                                 parsed |-> parse_content(content.val)]]
    /\ UNCHANGED <<cli, cret, mockVars, storeVars>>

(***************************************************************************)
(* The command line without a subcommand (src/main.rs, src/cli.rs): main   *)
(* hands a positional input to handle_smart_command and runs handle_get    *)
(* with the --env option otherwise.  Inputs, keys and values are sequences *)
(* of characters; the file system is the files and directories below.      *)
(***************************************************************************)
\* the regular files of the working directory with their contents
Files ==
    (<<".", "e", "n", "v">> :> <<"K", "=", "v">>)
    @@ (<<"f", "=", "g">> :> <<"J", "=", "w", LF, "K", "=", "x">>)

\* its directories
Dirs == {<<"d">>}

\* Path::exists
Path_exists(path) == path \in DOMAIN Files \/ path \in Dirs

\* the positional inputs tried
SmartInputs ==
    {<<".", "e", "n", "v">>, <<"f", "=", "g">>, <<"d">>, <<"K">>, <<"J">>,
     <<"K", "=", "v">>, <<"K", "=", "v", "=", "w">>, <<"=", "v">>,
     <<"a", ".", "e", "n", "v">>, <<"d", "/", "K">>,
     <<"a", "/", "b", "=", "c">>}

\* std::io::Error of fs::read_to_string
IoError == [kind |-> "io", code |-> 0]

\* EnvFileParser::parse_file
parse_file(path) ==
    IF path \in DOMAIN Files THEN parse_content(Files[path]) ELSE Err(IoError)

\* cli::handle_get(key, env, _all): the result, nothing is stored
handle_get(store, key, env) ==
    LET environment == IF env.some THEN env.v ELSE "development"
        service_name == generate_service_name(environment)
        r == get_var(cli.target_mode, store, service_name, key.v)
    IN  [service_name |-> service_name,
         res |-> IF ~key.some THEN Ok(Unit)
                 ELSE IF IsErr(r) THEN r
                 ELSE IF r.val.some THEN Ok(Unit)
                 ELSE Err(Exit1),
         store |-> store]

\* cli::handle_set(key, value, env, file): the possible outcomes, one for
\* each iteration order of the parsed map
handle_set(store, key, value, env, file) ==
    LET environment == IF env.some THEN env.v ELSE "development"
        service_name == generate_service_name(environment)
        parsed == parse_file(file.v)
        pairs == [k \in {e.k : e \in parsed.val} |->
                     HashMap_get(parsed.val, k).v]
        out(r) == [service_name |-> service_name, res |-> r[1], store |-> r[2]]
    IN  IF file.some
        THEN IF IsErr(parsed) THEN {out(<<parsed, store>>)}
             ELSE {out(set_vars(cli.target_mode, store, service_name, pairs,
                                order)) : order \in Orders(DOMAIN pairs)}
        ELSE IF key.some /\ value.some
        THEN {out(set_var(cli.target_mode, store, service_name, key.v,
                          value.v))}
        ELSE {out(<<Err(Exit1), store>>)}

\* fault variant of smart_branch: the test for a path to restore to comes
\* before the test for '='
smart_branch_restore_first(input) ==
    IF Path_exists(input) THEN "set_file"
    ELSE IF ends_with(input, <<".", "e", "n", "v">>) \/ find(input, <<"/">>) # 0
    THEN "restore"
    ELSE IF find(input, <<"=">>) # 0 THEN "set_pair"
    ELSE "get"

\* the branch of handle_smart_command's if / else-if chain
smart_branch(input) ==
    IF Path_exists(input) THEN "set_file"
    ELSE IF find(input, <<"=">>) # 0 THEN "set_pair"
    ELSE IF ends_with(input, <<".", "e", "n", "v">>) \/ find(input, <<"/">>) # 0
    THEN "restore"
    ELSE "get"

\* cli::handle_smart_command(input): the possible outcomes
handle_smart_command(store, input) ==
    LET branch == smart_branch(input)
        eq == find(input, <<"=">>)
        key == IF branch = "set_pair" THEN Some(SubSeq(input, 1, eq - 1))
               ELSE IF branch = "get" THEN Some(input) ELSE None
        value == IF branch = "set_pair"
                 THEN Some(SubSeq(input, eq + 1, Len(input))) ELSE None
        tag(o) == [branch |-> branch, key |-> key, value |-> value,
                   service_name |-> o.service_name, res |-> o.res,
                   store |-> o.store]
    IN  CASE branch = "set_file" ->
               {tag(o) : o \in handle_set(store, None, None, None, Some(input))}
          [] branch = "set_pair" ->
               {tag(o) : o \in handle_set(store, key, value, None, None)}
          [] branch = "restore" ->
               {tag([service_name |-> generate_service_name("development"),
                     res |-> Ok(Unit), store |-> store])}
          [] OTHER -> {tag(handle_get(store, key, None))}

\* main, the arm for no subcommand: cli.input and cli.env as clap parsed them
main(input, env) ==
    /\ \E o \in IF input.some THEN handle_smart_command(cli.store, input.v)
                ELSE {[branch |-> "get_all", key |-> None, value |-> None]
                      @@ handle_get(cli.store, None, Some(env))} :
          /\ cli' = [cli EXCEPT !.store = o.store]
          /\ txt' = [fn |-> "main",
                     arg |-> [input |-> input, env |-> env],
                     out |-> [branch |-> o.branch, key |-> o.key,
                              value |-> o.value,
                              service_name |-> o.service_name,
                              res |-> o.res, before |-> cli.store]]
    /\ UNCHANGED <<cret, mockVars, storeVars>>

(***************************************************************************)
(* Searches of the store backends.  FallbackKeychain filters its table     *)
(* under the lock.  MacOSKeychain runs an ItemSearchOptions search, which  *)
(* sees the generic-password items of every application: next to the items *)
(* of the store there are those of other applications (OtherItems), which  *)
(* no call on a key of the store addresses.  A search result is a record   *)
(* of its type and of the attributes and data it carries.                  *)
(***************************************************************************)
\* the accounts searched for: those of the callers and their common prefix
FindAccounts == AllAccounts \cup {<<"K">>}

\* the callers that search: any in mode "free", the first in mode "wide"
PermitFind(c) == mode = "free" \/ (mode = "wide" /\ c = 1)

FallbackKeychain_find_credentials(c, service) ==
    /\ backend = "fallback"
    /\ pc[c] = "idle"
    /\ PermitFind(c)
    /\ \E entries \in Orders(Fallback_find_credentials(storage, service)) :
          ev' = [NoEvent EXCEPT
                    !.op = "find_credentials",
                    !.key = <<service, << >>>>,
                    !.res = Ok(entries),
                    !.out = Keychain_map_err("find_credentials", Ok(entries)),
                    !.calls = Keychain_invocations(Ok(entries))]
    /\ UNCHANGED <<two, factory, cliVars, mockVars, backend, self, authorized,
                   storage, keychain, pc, pend, lastOp, mode, sres>>

FallbackKeychain_find_by_account(c, account) ==
    /\ backend = "fallback"
    /\ pc[c] = "idle"
    /\ PermitFind(c)
    /\ \E entries \in Orders(Fallback_find_by_account(storage, account)) :
          ev' = [NoEvent EXCEPT
                    !.op = "find_by_account",
                    !.key = <<"", account>>,
                    !.res = Ok(entries),
                    !.out = Keychain_map_err("find_by_account", Ok(entries)),
                    !.calls = Keychain_invocations(Ok(entries))]
    /\ UNCHANGED <<two, factory, cliVars, mockVars, backend, self, authorized,
                   storage, keychain, pc, pend, lastOp, mode, sres>>

\* what a search returns for the items of other applications: a complete
\* record, one without data, one without account, one that is no
\* dictionary, one without service, and a complete one of another service
\* whose data is not UTF-8
OtherItems ==
    {[type |-> "Dict", svce |-> Some("github.com/o/r?env=dev"),
      acct |-> Some(<<"X">>), v_Data |-> Some(<<112>>)],
     [type |-> "Dict", svce |-> Some("github.com/o/r?env=dev"),
      acct |-> Some(<<"Y">>), v_Data |-> None],
     [type |-> "Dict", svce |-> Some("github.com/o/r?env=dev"),
      acct |-> None, v_Data |-> Some(<<112>>)],
     [type |-> "Ref", svce |-> Some("github.com/o/r?env=dev"),
      acct |-> Some(<<"Z">>), v_Data |-> Some(<<112>>)],
     [type |-> "Dict", svce |-> None,
      acct |-> Some(OwnAccount(1)), v_Data |-> Some(<<112>>)],
     [type |-> "Dict", svce |-> Some("other.app"),
      acct |-> Some(OwnAccount(1)), v_Data |-> Some(<<255>>)]}

\* ItemSearchOptions::new().class(generic_password()).service(..) or
\* .account(..).load_data(true): no access group, no synchronizable flag
search_query(service, account) ==
    [class |-> "genp", svce |-> service, acct |-> account, agrp |-> None,
     sync |-> FALSE]

\* the search result of an item of the store
SearchResult(item) ==
    [type |-> "Dict", svce |-> Some(item.svce), acct |-> Some(item.acct),
     v_Data |-> Some(item.data)]

\* ItemSearchOptions::search: <<status, the results>>; a query without the
\* synchronizable attribute matches non-synchronizable items only
ItemSearch(kc, auth, q) ==
    LET found ==
            {SearchResult(i) :
                i \in {x \in kc : /\ x.class = q.class
                                  /\ q.svce.some => x.svce = q.svce.v
                                  /\ q.acct.some => x.acct = q.acct.v
                                  /\ x.sync = q.sync}}
            \cup {r \in OtherItems :
                    /\ q.svce.some => (r.svce.some /\ r.svce.v = q.svce.v)
                    /\ q.acct.some => (r.acct.some /\ r.acct.v = q.acct.v)}
    IN  IF ~auth THEN <<errSecAuthFailed, {}>>
        ELSE IF found = {} THEN <<errSecItemNotFound, {}>>
        ELSE <<errSecSuccess, found>>

\* fault variant of MacOS_find_entries: a result without password data is
\* listed with an empty password
MacOS_find_entries_no_data(results, service, account) ==
    {[service |-> IF service.some THEN service.v ELSE r.svce.v,
      account |-> IF account.some THEN account.v ELSE r.acct.v,
      password |-> IF r.v_Data.some THEN from_utf8_lossy(r.v_Data.v) ELSE << >>] :
        r \in {x \in results :
                 /\ x.type = "Dict"
                 /\ service.some => x.acct.some
                 /\ account.some => x.svce.some}}

\* the loop over the search results: if let SearchResult::Dict(dict), if let
\* (Some(account or service), Some(password_data)); the entry takes the
\* field searched by from the argument
MacOS_find_entries(results, service, account) ==
    {[service |-> IF service.some THEN service.v ELSE r.svce.v,
      account |-> IF account.some THEN account.v ELSE r.acct.v,
      password |-> from_utf8_lossy(r.v_Data.v)] :
        r \in {x \in results :
                 /\ x.type = "Dict"
                 /\ service.some => x.acct.some
                 /\ account.some => x.svce.some
                 /\ x.v_Data.some}}

\* the match on search.search(): Ok(items), Err of item-not-found, Err
MacOS_find_result(status, entries) ==
    IF status = errSecSuccess THEN Ok(entries)
    ELSE IF status = errSecItemNotFound THEN Ok(<< >>)
    ELSE Err(PlatformError(status))

\* find_credentials(service) with account = None, find_by_account(account)
\* with service = None
MacOSKeychain_find(c, op, service, account) ==
    LET q == search_query(service, account)
        found == ItemSearch(keychain, authorized, q)
    IN  /\ backend = "macos"
        /\ pc[c] = "idle"
        /\ PermitFind(c)
        /\ \E entries \in Orders(MacOS_find_entries(found[2], service, account)) :
              LET res == MacOS_find_result(found[1], entries)
              IN  ev' = [NoEvent EXCEPT
                            !.op = op,
                            !.key = <<IF service.some THEN service.v ELSE "",
                                      IF account.some THEN account.v ELSE << >>>>,
                            !.res = res,
                            !.status = found[1],
                            !.out = Keychain_map_err(op, res),
                            !.calls = Keychain_invocations(res),
                            !.native = <<[call |-> "SecItemCopyMatching",
                                          status |-> found[1], query |-> q,
                                          results |-> found[2]]>>]
        /\ UNCHANGED <<two, factory, cliVars, mockVars, backend, self,
                       authorized, storage, keychain, pc, pend, lastOp, mode,
                       sres>>

MacOSKeychain_find_credentials(c, service) ==
    /\ service \in Services
    /\ MacOSKeychain_find(c, "find_credentials", Some(service), None)

MacOSKeychain_find_by_account(c, account) ==
    /\ account \in FindAccounts
    /\ MacOSKeychain_find(c, "find_by_account", None, Some(account))

(***************************************************************************)
(* Specifications.                                                         *)
(***************************************************************************)
InitStore ==
    /\ self \in {MacOSKeychain_new(o) : o \in KeychainOptions}
    /\ authorized \in BOOLEAN
    /\ (backend # "macos" =>
            /\ self = MacOSKeychain_new([team_id |-> None,
                                         access_group |-> None,
                                         synchronizable |-> None])
            /\ authorized)
    /\ storage = FallbackKeychain_new
    /\ keychain = {}
    /\ pc = [c \in Callers |-> "idle"]
    /\ pend = [c \in Callers |-> NoPend]
    /\ lastOp = [k \in AllKeys |-> Never]
    /\ ev = NoEvent
    /\ sres = [c \in Callers |-> << >>]
    /\ factory = Direct
    /\ InitTwo

\* no store yet: Keychain::new is still to be called on some target platform
InitFactory ==
    /\ backend = "none"
    /\ self = MacOSKeychain_new([team_id |-> None, access_group |-> None,
                                 synchronizable |-> None])
    /\ authorized \in BOOLEAN
    /\ storage = FallbackKeychain_new
    /\ keychain = {}
    /\ pc = [c \in Callers |-> "idle"]
    /\ pend = [c \in Callers |-> NoPend]
    /\ lastOp = [k \in AllKeys |-> Never]
    /\ ev = NoEvent
    /\ sres = [c \in Callers |-> << >>]
    /\ factory \in {[target_os |-> t, via |-> "factory", result |-> None] :
                       t \in TargetOS}
    /\ InitTwo

(***************************************************************************)
(* The mutexes of the in-memory stores.  FallbackKeychain guards its map   *)
(* with one std::sync::Mutex, MockKeychain guards storage and metadata     *)
(* with one each.  A call takes its locks one after the other, each        *)
(* lock() blocking until the mutex is free, and the guards are dropped     *)
(* when the call returns.  No call awaits while it holds a guard.          *)
(***************************************************************************)
Mutexes == {"storage", "metadata"}

LockedStores == {"fallback", "mock"}

LockedOps == {"set", "get", "delete", "get_entry", "find", "find_by_account"}

NotCalling ==
    [op |-> "none", account |-> << >>, password |-> << >>, metadata |-> None,
     need |-> << >>]

NoLocks ==
    [store |-> "none",
     holder |-> [m \in Mutexes |-> 0],
     call |-> [c \in Callers |-> NotCalling],
     ret |-> Ok(Unit)]

\* the one key and the one account the contending calls work on
LockedService == "github.com/o/r?env=dev"

\* the password every set_password of the contending calls stores
LockedPassword == PasswordList[1]

LockedAccount(store) ==
    IF store = "fallback" THEN OwnAccount(1) ELSE <<"a", "_", "1">>

\* fault variant of lock_order: delete_password locks the metadata first
lock_order_metadata_first(store, m, op, metadata) ==
    CASE store = "fallback" -> <<"storage">>
      [] op = "set" ->
           IF m.fail_on_set THEN << >>
           ELSE IF metadata.some THEN <<"storage", "metadata">>
           ELSE <<"storage">>
      [] op = "get" -> IF m.fail_on_get THEN << >> ELSE <<"storage">>
      [] op = "delete" -> <<"metadata", "storage">>
      [] OTHER -> <<"storage", "metadata">>

\* the lock() calls of an operation, in the order of its statements
lock_order(store, m, op, metadata) ==
    CASE store = "fallback" -> <<"storage">>
      [] op = "set" ->
           IF m.fail_on_set THEN << >>
           ELSE IF metadata.some THEN <<"storage", "metadata">>
           ELSE <<"storage">>
      [] op = "get" -> IF m.fail_on_get THEN << >> ELSE <<"storage">>
      [] OTHER -> <<"storage", "metadata">>

\* the operations of each store
StoreOps(store) ==
    IF store = "fallback"
    THEN {"set", "get", "delete", "find", "find_by_account"}
    ELSE {"set", "get", "delete", "get_entry", "find"}

\* a caller invokes an operation: nothing is locked yet
Locked_call(c, op, password, metadata) ==
    /\ locks.store \in LockedStores
    /\ op \in StoreOps(locks.store)
    /\ locks.call[c].op = "none"
    /\ locks' = [locks EXCEPT !.call[c] =
                    [op |-> op,
                     account |-> LockedAccount(locks.store),
                     password |-> IF op = "set" THEN password ELSE << >>,
                     metadata |-> IF op = "set" /\ locks.store = "mock"
                                  THEN metadata ELSE None,
                     need |-> lock_order(locks.store, mock, op, metadata)]]
    /\ UNCHANGED <<mock, mret, cliVars, storeVars>>

\* Mutex::lock: the caller blocks until the mutex is free, then holds it
Mutex_lock(c) ==
    LET need == locks.call[c].need
    IN  /\ locks.call[c].op # "none"
        /\ need # << >>
        /\ locks.holder[Head(need)] = 0
        /\ locks' = [locks EXCEPT !.holder[Head(need)] = c,
                                  !.call[c].need = Tail(need)]
        /\ UNCHANGED <<mock, mret, cliVars, storeVars>>

\* the maps after the body of a FallbackKeychain operation
Locked_fallback_storage(call) ==
    CASE call.op = "set" ->
           Fallback_set_storage(storage, LockedService, call.account,
                                call.password)
      [] call.op = "delete" ->
           Fallback_delete_storage(storage, LockedService, call.account)
      [] OTHER -> storage

Locked_fallback_result(call) ==
    CASE call.op = "set" ->
           {Fallback_set_result(storage, LockedService, call.account,
                                call.password)}
      [] call.op = "get" ->
           {Fallback_get_result(storage, LockedService, call.account)}
      [] call.op = "delete" ->
           {Fallback_delete_result(storage, LockedService, call.account)}
      [] call.op = "find" ->
           {Ok(q) : q \in Orders(Fallback_find_credentials(storage,
                                                           LockedService))}
      [] OTHER ->
           {Ok(q) : q \in Orders(Fallback_find_by_account(storage,
                                                          call.account))}

\* the maps after the body of a MockKeychain operation
Locked_mock(call) ==
    CASE call.op = "set" /\ ~mock.fail_on_set ->
           [mock EXCEPT
              !.storage = HashMap_insert(@, call.account, call.password),
              !.metadata = IF call.metadata.some
                           THEN HashMap_insert(@, call.account, call.metadata.v)
                           ELSE @]
      [] call.op = "delete" ->
           [mock EXCEPT !.storage = HashMap_without(@, call.account),
                        !.metadata = HashMap_without(@, call.account)]
      [] OTHER -> mock

Locked_mock_result(call) ==
    CASE call.op = "set" ->
           {IF mock.fail_on_set THEN Err(AccessDenied) ELSE Ok(Unit)}
      [] call.op = "get" ->
           {IF mock.fail_on_get THEN Err(AccessDenied)
            ELSE Ok(HashMap_get(mock.storage, call.account))}
      [] call.op = "delete" ->
           {Ok(HashMap_remove(mock.storage, call.account).some)}
      [] call.op = "get_entry" -> {Mock_get_entry(mock, call.account)}
      [] OTHER -> {Ok(q) : q \in Orders(Mock_find_entries(mock, None))}

\* the body of the operation, run with every lock of the call held, and the
\* return, which drops the guards.  Whatever the body does between two lock()
\* calls is done to a map no other caller can look at before the return.
Locked_return(c) ==
    LET call == locks.call[c]
    IN  /\ call.op # "none"
        /\ call.need = << >>
        /\ IF locks.store = "fallback"
           THEN /\ storage' = Locked_fallback_storage(call)
                /\ \E r \in Locked_fallback_result(call) :
                      locks' = [locks EXCEPT
                          !.holder = [m \in Mutexes |->
                                         IF @[m] = c THEN 0 ELSE @[m]],
                          !.call[c] = NotCalling,
                          !.ret = r]
                /\ UNCHANGED <<mock, mret, cliVars, two, factory, backend,
                               self, authorized, keychain, pc, pend, lastOp,
                               ev, mode, sres>>
           ELSE /\ mock' = Locked_mock(call)
                /\ \E r \in Locked_mock_result(call) :
                      locks' = [locks EXCEPT
                          !.holder = [m \in Mutexes |->
                                         IF @[m] = c THEN 0 ELSE @[m]],
                          !.call[c] = NotCalling,
                          !.ret = r]
                /\ UNCHANGED <<mret, cliVars, storeVars>>

\* the CLI has not run: no credential stored
InitCliIdle ==
    /\ cli = [target_mode |-> "distinct", store |-> HashMap_new, faults |-> {}]
    /\ cret = NoCliEvent
    /\ txt = NoText

\* a MockKeychain built by new() or with_failures(); the stores stay unused
InitMock ==
    /\ backend = "fallback"
    /\ InitStore
    /\ mode = "free"
    /\ InitCliIdle
    /\ mock \in {MockKeychain_with_failures(fs, fg) : fs, fg \in BOOLEAN}
    /\ mret = NoMockEvent
    /\ locks = NoLocks

\* a store of any backend type, callers issuing any calls
Init ==
    /\ \/ backend \in Backends /\ InitStore
       \/ InitFactory
    /\ mode = "free"
    /\ mock = MockKeychain_with_failures(FALSE, FALSE)
    /\ mret = NoMockEvent
    /\ locks = NoLocks
    /\ InitCliIdle

\* test_keychain_concurrent_operations: Keychain::new(options).unwrap() has
\* returned a store, which the stub's constructor never does
InitScript ==
    /\ backend \in {"fallback", "macos"}
    /\ InitStore
    /\ mode = "script"
    /\ mock = MockKeychain_with_failures(FALSE, FALSE)
    /\ mret = NoMockEvent
    /\ locks = NoLocks
    /\ InitCliIdle

FallbackNext(c) ==
    \E s \in Services, a \in AllAccounts :
        \/ FallbackKeychain_get_password(c, s, a)
        \/ FallbackKeychain_delete_password(c, s, a)
        \/ \E p \in Passwords : FallbackKeychain_set_password(c, s, a, p)

FallbackFind(c) ==
    \E s \in Services, a \in FindAccounts :
        \/ FallbackKeychain_find_credentials(c, s)
        \/ FallbackKeychain_find_by_account(c, a)

MacOSNext(c) ==
    \/ \E s \in Services, a \in AllAccounts :
          \/ MacOSKeychain_get_password(c, s, a)
          \/ MacOSKeychain_delete_password(c, s, a)
          \/ \E p \in Passwords : MacOSKeychain_set_password_delete(c, s, a, p)
    \/ MacOSKeychain_set_password_add(c)

MacOSFind(c) ==
    \E s \in Services, a \in FindAccounts :
        \/ MacOSKeychain_find_credentials(c, s)
        \/ MacOSKeychain_find_by_account(c, a)

LinuxNext(c) ==
    \E s \in Services, a \in AllAccounts :
        \/ LinuxKeychain_get_password(c, s, a)
        \/ LinuxKeychain_delete_password(c, s, a)
        \/ \E p \in Passwords : LinuxKeychain_set_password(c, s, a, p)
        \/ LinuxKeychain_find_credentials(c, s)
        \/ LinuxKeychain_find_by_account(c, a)

Next ==
    \/ \E c \in Callers : FallbackNext(c) \/ MacOSNext(c) \/ LinuxNext(c)
    \/ \E c \in Callers : FallbackFind(c) \/ MacOSFind(c)
    \/ \E o \in KeychainOptions : Keychain_new(o)

NextScript == \E c \in Callers : FallbackNext(c) \/ MacOSNext(c)

\* a store of the fallback or the native backend, calls on two keys
InitWide ==
    /\ backend \in {"fallback", "macos"}
    /\ InitStore
    /\ mode = "wide"
    /\ mock = MockKeychain_with_failures(FALSE, FALSE)
    /\ mret = NoMockEvent
    /\ locks = NoLocks
    /\ InitCliIdle

NextWide ==
    \E c \in Callers :
        FallbackNext(c) \/ FallbackFind(c) \/ MacOSNext(c) \/ MacOSFind(c)

SpecWide == InitWide /\ [][NextWide]_vars

NextMock ==
    \/ \E a \in MockAccounts :
          \/ MockKeychain_get_password(a)
          \/ MockKeychain_delete_password(a)
          \/ MockKeychain_get_entry(a)
          \/ \E p \in Passwords, m \in MockMetadata :
                MockKeychain_set_password(a, p, m)
    \/ \E q \in FindQueries : MockKeychain_find_entries(q)

\* callers issue any calls on one store, in any interleaving
Spec == Init /\ [][Next]_vars

\* every caller runs the task of the concurrent test on its own key
SpecScript == InitScript /\ [][NextScript]_vars

\* any sequence of calls on one MockKeychain
SpecMock == InitMock /\ [][NextMock]_vars

\* the CLI's credential store on any platform store, nothing stored yet
InitCli ==
    /\ backend = "fallback"
    /\ InitStore
    /\ mode = "free"
    /\ mock = MockKeychain_with_failures(FALSE, FALSE)
    /\ mret = NoMockEvent
    /\ locks = NoLocks
    /\ cli \in {[target_mode |-> t, store |-> HashMap_new, faults |-> {}] :
                  t \in TargetModes}
    /\ cret = NoCliEvent
    /\ txt = NoText

NextCli ==
    \/ \E e \in CliEnvs, k \in CliKeys :
          \/ KeychainManager_get_var(generate_service_name(e), k)
          \/ KeychainManager_delete_var(generate_service_name(e), k)
          \/ \E v \in CliValues :
                KeychainManager_set_var(generate_service_name(e), k, v)
    \/ \E e \in CliEnvs, ks \in SUBSET CliKeys :
          \E pairs \in [ks -> CliValues] :
             KeychainManager_set_vars(generate_service_name(e), pairs)
    \/ \E e \in CliEnvs, all \in BOOLEAN,
          key \in {None} \cup {Some(k) : k \in CliKeys} :
             handle_delete(key, e, all)

\* any sequence of CLI store calls, one process at a time
SpecCli == InitCli /\ [][NextCli]_vars

\* the CLI's credential store on a platform store that refuses the writes
\* or the reads of some keys
InitFaulty ==
    /\ backend = "fallback"
    /\ InitStore
    /\ mode = "free"
    /\ mock = MockKeychain_with_failures(FALSE, FALSE)
    /\ mret = NoMockEvent
    /\ locks = NoLocks
    /\ cli \in {[target_mode |-> t, store |-> HashMap_new, faults |-> f] :
                  t \in TargetModes,
                  f \in {{<<"set", "DB_URL">>}, {<<"get", "DB_URL">>},
                         {<<"get", "API_KEY">>, <<"set", "DB_URL">>}}}
    /\ cret = NoCliEvent
    /\ txt = NoText

\* any sequence of CLI store calls on such a store
SpecFaulty == InitFaulty /\ [][NextCli]_vars

NextMain ==
    \E env \in CliEnvs, input \in {None} \cup {Some(i) : i \in SmartInputs} :
        main(input, env)

\* any sequence of runs of the command line without a subcommand
SpecMain == InitCli /\ [][NextMain]_vars

\* one of the in-memory stores, empty, no call in progress
InitLocks ==
    /\ backend = "fallback"
    /\ InitStore
    /\ mode = "free"
    /\ InitCliIdle
    /\ mret = NoMockEvent
    /\ \E store \in LockedStores :
          /\ locks = [NoLocks EXCEPT !.store = store]
          /\ mock \in IF store = "mock"
                      THEN {MockKeychain_with_failures(fs, fg) :
                               fs, fg \in BOOLEAN}
                      ELSE {MockKeychain_with_failures(FALSE, FALSE)}

NextLocks ==
    \E c \in Callers :
        \/ \E op \in LockedOps, m \in MockMetadata :
              Locked_call(c, op, LockedPassword, m)
        \/ Mutex_lock(c)
        \/ Locked_return(c)

\* the scheduler is fair: a call that can go on does go on, and a caller
\* waiting for a mutex that is free again and again gets it in the end
FairLocks ==
    \A c \in Callers : SF_vars(Mutex_lock(c)) /\ WF_vars(Locked_return(c))

\* any number of calls of concurrent callers on one in-memory store
SpecLocks == InitLocks /\ [][NextLocks]_vars /\ FairLocks

NextTwo ==
    \E i \in Instances :
        \/ Two_new(i)
        \/ \E k \in TwoKeys :
              \/ Two_get_password(i, k[1], k[2])
              \/ Two_delete_password(i, k[1], k[2])
              \/ \E p \in Passwords : Two_set_password(i, k[1], k[2], p)
        \/ \E s \in Services : Two_find_credentials(i, s)
        \/ \E a \in Accounts : Two_find_by_account(i, a)

InitInstances ==
    /\ backend = "fallback"
    /\ InitStore
    /\ mode = "free"
    /\ mock = MockKeychain_with_failures(FALSE, FALSE)
    /\ mret = NoMockEvent
    /\ locks = NoLocks
    /\ InitCliIdle

\* two fallback instances constructed and used in any order
SpecTwo == InitInstances /\ [][NextTwo]_vars

\* nothing of the stores is used; the text function to call gets arg
InitText(args) ==
    /\ backend = "fallback"
    /\ InitStore
    /\ mode = "free"
    /\ mock = MockKeychain_with_failures(FALSE, FALSE)
    /\ mret = NoMockEvent
    /\ locks = NoLocks
    /\ cli = [target_mode |-> "distinct", store |-> HashMap_new, faults |-> {}]
    /\ cret = NoCliEvent
    /\ txt \in {[NoText EXCEPT !.arg = a] : a \in args}

\* the repository part of the names generate_service_name builds
ServiceRepos ==
    {SubSeq(resolve_service_name(wd, << >>), 1,
            Len(resolve_service_name(wd, << >>)) - Len(ENV_SEP)) :
        wd \in WorkingDirs}

InitResolver ==
    InitText({[kind |-> "resolver", wd |-> wd, environment |-> e] :
                  wd \in WorkingDirs, e \in TextEnvs}
             \cup {[kind |-> "built", repo |-> repo, environment |-> e] :
                      repo \in ServiceRepos, e \in TextEnvs}
             \cup {[kind |-> "plain", service_name |-> repo] :
                      repo \in ServiceRepos})

NextResolver ==
    \/ GitPathResolver_generate_service_name
    \/ GitPathResolver_extract_env_from_service
    \/ GitPathResolver_extract_repo_from_service
    \/ GitPathResolver_extract_env_plain

\* a call of a service-name function on any working directory or name
SpecResolver == InitResolver /\ [][NextResolver]_vars

InitParser ==
    InitText({[kind |-> "file", content |-> c] : c \in EnvContents}
             \cup {[kind |-> "vars", vars |-> v] : v \in EnvVars}
             \cup {[kind |-> "update", original |-> o, vars |-> v] :
                      o \in UpdateOriginals, v \in UpdateVars})

NextParser ==
    \/ EnvFileParser_parse_content
    \/ EnvFileParser_create_content
    \/ EnvFileParser_update_content

\* parse_content on any file content
SpecParser == InitParser /\ [][NextParser]_vars

(***************************************************************************)
(* What a call issued in the current state returns (the dispatch of        *)
(* Keychain::get_password / delete_password to the platform object).       *)
(***************************************************************************)
get_password(service, account) ==
    CASE backend = "fallback" ->
            {Fallback_get_result(storage, service, account)}
      [] backend = "macos" ->
            {MacOS_get_result(out[1], out[2]) :
                out \in SecItemCopyMatching(keychain, authorized,
                           build_base_query(self, service, Some(account)))}
      [] OTHER -> {Linux_result}

delete_password(service, account) ==
    CASE backend = "fallback" ->
            Fallback_delete_result(storage, service, account)
      [] backend = "macos" ->
            MacOS_delete_result(
                delete_generic_password(keychain, authorized,
                                        service, account)[1])
      [] OTHER -> Linux_result

(***************************************************************************)
(* Claims.  ev is the call that returned in the last step: ev.ctx is what  *)
(* the earlier calls did to its key, ev.pre whether the key had a live     *)
(* entry when the call took effect, ev.same whether the store kept its     *)
(* content, ev.status the native status the result was mapped from.        *)
(***************************************************************************)

\* C1 (as stated): on every backend, get_password on a pair that was never
\* set, or that was set and then removed by delete_password, returns
\* Ok(None) and never an error.
C1_AbsentGetIsNoneEveryBackend ==
    (ev.op = "get" /\ ev.ctx.kind \in {"never", "deleted"}) => IsOkNone(ev.res)

\* C1 (amended): get_password on a pair never set, or set and then removed by
\* delete_password, never returns a password; it returns Ok(None) on the
\* fallback backend and on the native backend whenever the native lookup
\* reports item-not-found, which it does while the keychain is accessible;
\* any other native status is returned as PlatformError carrying it, and the
\* unsupported-platform stub returns Err(Unsupported).
C1_AbsentGet ==
    (ev.op = "get" /\ ev.ctx.kind \in {"never", "deleted"}) =>
        /\ ~(IsOk(ev.res) /\ ev.res.val.some)
        /\ backend = "fallback" => IsOkNone(ev.res)
        /\ backend = "macos" =>
              /\ authorized => ev.status = errSecItemNotFound
              /\ ev.status = errSecItemNotFound => IsOkNone(ev.res)
              /\ ev.status # errSecItemNotFound =>
                    /\ IsErrKind(ev.res, "PlatformError")
                    /\ ev.res.err.code = ev.status
        /\ backend = "linux" => IsErrKind(ev.res, "Unsupported")

\* C1 witness: a get_password answered Ok(None) for a pair that had been set
\* and then removed by delete_password.
C1_Witness ==
    /\ ev.op = "get"
    /\ ev.ctx.kind = "deleted"
    /\ IsOkNone(ev.res)

C3_WitnessEmpty ==
    /\ ev.op = "get"
    /\ ev.ctx.kind = "set"
    /\ ev.ctx.pw = << >>
    /\ IsOkSome(ev.res, << >>)

\* C4 (as stated): overwrite.  A set_password(s, a, p2) on a pair that holds
\* the password of an earlier set_password, run with no call overlapping it,
\* returns Ok, and a get_password issued right after it returns Ok(Some(p2)):
\* on the fallback backend and on the native backend.
C4_Overwrite ==
    (ev.op = "set" /\ ev.ctx.kind = "set") =>
        /\ IsOk(ev.res)
        /\ \A r \in get_password(ev.key[1], ev.key[2]) : IsOkSome(r, ev.pw)

\* C5 (as stated): delete_password returns Ok(true) exactly when a live entry
\* of the pair existed right before the call; after Ok(true) the entry is
\* absent and a delete_password issued right after it returns Ok(false).
C5_DeleteReportsExistence ==
    ev.op = "delete" =>
        /\ IsOkBool(ev.res, TRUE) <=> ev.pre
        /\ IsOkBool(ev.res, TRUE) =>
              /\ ~Live(ev.key)
              /\ IsOkBool(delete_password(ev.key[1], ev.key[2]), FALSE)

\* C6: in every reachable state the store holds at most one live entry per
\* (service, account) pair, concurrent native set_password calls included.
C6_AtMostOneEntry == \A k \in AllKeys : Cardinality(Entries(k)) <= 1

\* C6 witness: a native set_password is between its delete and its add while
\* the pair already has the entry another writer added.
C6_Witness ==
    \E c \in Callers : pc[c] = "add" /\ Cardinality(Entries(pend[c].key)) = 1

\* C7 (as stated): every task of the concurrent test (delete, set, get,
\* delete on its own key) gets back from get_password the password it set,
\* and true from its final delete_password, under every interleaving.
C7_DisjointKeys ==
    mode = "script" =>
        \A c \in Callers :
            /\ (Len(sres[c]) >= 3 /\ IsOk(sres[c][2])) =>
                    IsOkSome(sres[c][3], OwnPassword(c))
            /\ Len(sres[c]) >= 4 => IsOkBool(sres[c][4], TRUE)

\* account = prefix followed by some rest, character for character
BeginsWith(account, prefix) ==
    \E n \in 0..Len(account) : SubSeq(account, 1, n) = prefix

Wanted(account, query) ==
    \/ ~query.some
    \/ ~query.v.account_prefix.some
    \/ BeginsWith(account, query.v.account_prefix.v)

\* C8: MockKeychain::find_entries with no query returns every live entry
\* once; with an account prefix it returns exactly the live entries whose
\* account begins with that prefix, compared case-sensitively; a prefix
\* that no account begins with gives Ok with an empty list.  find_entries
\* leaves the storage as it was, so the state it returns in holds the
\* entries that were live at the call.
C8_FindEntriesByPrefix ==
    mret.op = "find" =>
        /\ IsOk(mret.res)
        /\ \A i, j \in DOMAIN mret.res.val :
              i # j => mret.res.val[i].account # mret.res.val[j].account
        /\ {<<mret.res.val[i].account, mret.res.val[i].password>> :
               i \in DOMAIN mret.res.val}
           = {<<e.k, e.v>> : e \in {x \in mock.storage : Wanted(x.k, mret.query)}}

\* a prefix search that returns both "a_" entries while "A_1" is live
C8_Witness ==
    /\ mret.op = "find"
    /\ mret.query.some
    /\ mret.query.v.account_prefix = Some(<<"a", "_">>)
    /\ Len(mret.res.val) = 2
    /\ Cardinality(mock.storage) = 3

\* a prefix no account begins with: Ok with an empty list
C8_WitnessNoMatch ==
    /\ mret.op = "find"
    /\ mret.query.some
    /\ mret.query.v.account_prefix = Some(<<"x">>)
    /\ IsOk(mret.res)
    /\ mret.res.val = << >>
    /\ Cardinality(mock.storage) = 3

\* no query at all: every live entry
C8_WitnessAll ==
    /\ mret.op = "find"
    /\ ~mret.query.some
    /\ Len(mret.res.val) = 3

\* C9 (as stated): native backend, concurrent writers of one key.  Once all
\* set_password calls on the key have returned, the key holds the password of
\* the writer that finished last.  Stated for an accessible keychain and
\* options that do not ask for synchronizable items, where a set_password
\* run alone does overwrite.
C9_LastWriterWins ==
    (/\ backend = "macos" /\ authorized /\ ~self.synchronizable
     /\ ev.op = "set"
     /\ \A c \in Callers : ~(pc[c] = "add" /\ pend[c].key = ev.key)) =>
        Held(ev.key) = {ev.pw}

C11_GetVarAbsentIsNone ==
    (/\ cret.op = "get_var"
     /\ cret.key.v \notin cret.stored) => IsOkNone(cret.res)

\* C12 (as stated): set_var, get_var and delete_var address the same entry.
\* A delete_var(k) right after a successful set_var(k, v) of the same
\* manager returns Ok(true), and a get_var(k) following it returns Ok(None).
C12_SameEntry ==
    (cret.op = "delete_var" /\ cret.after_set) =>
        /\ IsOkBool(cret.res, TRUE)
        /\ IsOkNone(get_var(cli.target_mode, cli.store, cret.service,
                            cret.key.v))

\* C19 (as stated): after handle_delete(key, env, all = true) reports
\* success, get_var retrieves no variable of that environment's service.
C19_DeleteAllDeletes ==
    (cret.op = "handle_delete" /\ cret.all /\ IsOk(cret.res)) =>
        \A k \in CliKeys :
            ~IsOk(get_var(cli.target_mode, cli.store, cret.service, k))

\* C20: after set_vars(pairs) returns Ok, get_var(k) returns Some(pairs[k])
\* for every key k of pairs.
C20_SetVarsStoresAll ==
    (cret.op = "set_vars" /\ IsOk(cret.res)) =>
        \A k \in DOMAIN cret.pairs :
            IsOkSome(get_var(cli.target_mode, cli.store, cret.service, k),
                     cret.pairs[k])

\* C20 witness: a set_vars of two pairs returned Ok over a store that
\* already held another value for one of the keys.
C20_Witness ==
    /\ cret.op = "set_vars"
    /\ IsOk(cret.res)
    /\ Cardinality(DOMAIN cret.pairs) = 2
    /\ cret.stored # {}
    /\ \E k \in DOMAIN cret.pairs, j \in DOMAIN cret.pairs :
          cret.pairs[k] # cret.pairs[j]

C14_FactorySelectsOneBackend ==
    factory.via = "factory" =>
        /\ factory.result.some =>
              /\ factory.target_os = "macos" =>
                    IsOk(factory.result.v) /\ backend = "macos"
              /\ factory.target_os = "other" =>
                    IsOk(factory.result.v) /\ backend = "fallback"
              /\ factory.target_os \in {"linux", "windows"} =>
                    IsErr(factory.result.v) /\ backend = "none"
        /\ backend # "none" =>
              /\ factory.result.some
              /\ IsOk(factory.result.v)
              /\ backend = factory.result.v.val.backend
        /\ backend # "fallback" => storage = HashMap_new
        /\ backend # "macos" => keychain = {}

\* C14 witness: a store built by the factory on a target without native
\* backend has served a set_password, still bound to the fallback.
C14_Witness ==
    /\ factory.via = "factory"
    /\ factory.target_os = "other"
    /\ backend = "fallback"
    /\ ev.op = "set"
    /\ storage # HashMap_new

\* C15: on the stub backend every operation (set_password, get_password,
\* delete_password, find_credentials, find_by_account) returns an
\* Unsupported error for every argument and changes no stored state;
\* the stub's constructor fails with the same error kind and a message that
\* tells the caller to use the fallback.
C15_StubOperationsUnsupported ==
    /\ (backend = "linux" /\ ev.op # "none") =>
          /\ IsErrKind(ev.res, "Unsupported")
          /\ ev.same
          /\ storage = HashMap_new
          /\ keychain = {}
    /\ (factory.target_os = "linux" /\ factory.result.some) =>
          /\ IsErrKind(factory.result.v, "Unsupported")
          /\ factory.result.v.err.msg[Len(factory.result.v.err.msg)]
                = "Use fallback."

\* C15 witness: a search on the stub has returned.
C15_Witness ==
    /\ backend = "linux"
    /\ ev.op = "find_by_account"
    /\ IsErr(ev.res)

\* C17 (as stated): set_password on an existing entry overwrites the whole
\* entry and never merges old and new metadata: once a set_password(a, p,
\* metadata) has returned Ok, get_entry(a) returns the password p with
\* exactly the metadata of that call, none when it gave none.
C17_OverwriteNoMetadataMerge ==
    (mret.op = "set" /\ IsOk(mret.res)) =>
        LET e == Mock_get_entry(mock, mret.account)
        IN  /\ IsOk(e)
            /\ e.val.some
            /\ e.val.v.password = mret.password
            /\ e.val.v.metadata = mret.metadata

\* what the calls made on instance i alone have left for a service / account
Own_entries(i, service, account) ==
    {[service |-> k[1], account |-> k[2], password |-> two.shadow[i][k].v] :
        k \in {x \in TwoKeys : /\ two.shadow[i][x].some
                               /\ service \in {"", x[1]}
                               /\ account \in {<< >>, x[2]}}}

\* C18: two independently constructed fallback instances never share state.
\* Every get_password, delete_password and find on an instance returns what
\* the calls made on that same instance determine, whatever was done on the
\* other one, and an instance just constructed is empty.
C18_InstancesIsolated ==
    LET r == two.ret
    IN  /\ r.op = "new" => two.heap[two.refs[r.inst]] = HashMap_new
        /\ r.op = "get" =>
              IF r.pre.some THEN IsOkSome(r.res, r.pre.v) ELSE IsOkNone(r.res)
        /\ r.op = "delete" => IsOkBool(r.res, r.pre.some)
        /\ r.op \in {"find_credentials", "find_by_account"} =>
              /\ IsOk(r.res)
              /\ Len(r.res.val) = Cardinality(Own_entries(r.inst, r.key[1], r.key[2]))
              /\ {r.res.val[n] : n \in DOMAIN r.res.val}
                    = Own_entries(r.inst, r.key[1], r.key[2])

\* C18 witness: a get_password on one instance finds nothing for a key the
\* other instance holds.
C18_Witness ==
    /\ two.ret.op = "get"
    /\ IsOkNone(two.ret.res)
    /\ \E j \in Instances :
          /\ j # two.ret.inst
          /\ two.shadow[j][two.ret.key].some

\* the variant of KeychainError a display text begins with
KindOfText(reason) ==
    CASE reason[1] = "Keychain item not found: " -> "NotFound"
      [] reason[1] = "Access denied to keychain" -> "AccessDenied"
      [] reason[1] = "Invalid data: " -> "InvalidData"
      [] reason[1] = "Invalid parameter: " -> "InvalidParameter"
      [] reason[1] = "Platform error: " -> "PlatformError"
      [] reason[1] = "Unsupported operation: " -> "Unsupported"
      [] OTHER -> "UnsupportedPlatform"

C22_ExtractionInvertsGeneration ==
    /\ txt.fn = "extract_env_from_service" => txt.out = txt.arg.environment
    /\ txt.fn = "extract_repo_from_service" => txt.out = txt.arg.repo
    /\ (txt.fn = "extract_env_plain"
          /\ find(txt.arg.service_name, ENV_SEP) = 0) => txt.out = DEVELOPMENT

\* the lines of a file that are neither blank nor a comment and have a
\* non-empty key ahead of their first unescaped '='
Entry_lines(content) ==
    LET ls == lines(content)
    IN  {i \in 1..Len(ls) :
            LET line == trim(ls[i])
                eq == find_unescaped_equals(line)
            IN  /\ line # << >>
                /\ line[1] # "#"
                /\ eq.some
                /\ trim(SubSeq(line, 1, eq.v)) # << >>}

\* C23: parse_content yields one entry per non-blank, non-comment line that
\* has a non-empty key: key and value are the trimmed parts before and
\* after the first unescaped '=', and a value wrapped in matching quotes is
\* unquoted and its escapes decoded, any other value taken verbatim.
C23_OneEntryPerLine ==
    txt.fn = "parse_content" =>
        LET ls == lines(txt.arg.content)
            wanted == Entry_lines(txt.arg.content)
        IN  /\ IsOk(txt.out)
            /\ Cardinality(txt.out.val) = Cardinality(wanted)
            /\ \A i \in wanted :
                  LET line == trim(ls[i])
                      eq == find_unescaped_equals(line)
                      key == trim(SubSeq(line, 1, eq.v))
                      value == trim(SubSeq(line, eq.v + 2, Len(line)))
                      wrapped ==
                          /\ Len(value) >= 1
                          /\ value[1] \in {DQ, SQ}
                          /\ value[Len(value)] = value[1]
                  IN  HashMap_get(txt.out.val, key) =
                         Some(IF wrapped
                              THEN unescape_value(SubSeq(value, 2, Len(value) - 1))
                              ELSE value)

\* C24: native set_password makes exactly one delete attempt for the key
\* and then exactly one add, in that order; whatever the delete attempt
\* reports, the add is made, and the caller's result is Ok exactly when the
\* add's status is success, an error carrying the add's status otherwise.
C24_DeleteThenAdd ==
    /\ (backend = "macos" /\ ev.op = "set") =>
          /\ Len(ev.native) = 2
          /\ ev.native[1].call = "SecItemDelete"
          /\ ev.native[2].call = "SecItemAdd"
          /\ IsOk(ev.res) <=> ev.native[2].status = errSecSuccess
          /\ IsErr(ev.res) => ev.res.err = PlatformError(ev.native[2].status)
    /\ \A c \in Callers :
          pc[c] = "add" =>
             /\ Len(pend[c].native) = 1
             /\ pend[c].native[1].call = "SecItemDelete"
             /\ ENABLED MacOSKeychain_set_password_add(c)

\* C24 witness: a set_password whose delete attempt removed an item
\* returned Ok after its add.
C24_Witness ==
    /\ backend = "macos"
    /\ ev.op = "set"
    /\ ev.native[1].status = errSecSuccess
    /\ ev.native[2].status = errSecSuccess
    /\ IsOk(ev.res)

\* C24 witness of a delete attempt that is denied: the add is made all the
\* same and its status is the one returned.
C24_WitnessDenied ==
    /\ backend = "macos"
    /\ ev.op = "set"
    /\ ev.native[1].status = errSecAuthFailed
    /\ IsErr(ev.res)

\* C25: every native operation, the add and the delete step of set_password,
\* get_password, delete_password and the searches, queries the keychain with
\* the attributes build_base_query makes for the call: class, service,
\* account, the access group of the options and their synchronizable flag;
\* hence a delete_password never misses an item that is there.
C25_SameQueryEveryOperation ==
    backend = "macos" =>
        /\ \A i \in DOMAIN ev.native :
              LET n == ev.native[i]
                  base == build_base_query(self, ev.key[1], Some(ev.key[2]))
              IN  /\ n.query.class = base.class
                  /\ n.query.agrp = base.agrp
                  /\ n.query.sync = base.sync
                  /\ ev.op \in {"set", "get", "delete"} => n.query = base
        /\ (ev.op = "delete" /\ ev.pre) => ~IsOkBool(ev.res, FALSE)

Complete_results(op, results) ==
    {r \in results :
        /\ r.type = "Dict"
        /\ IF op = "find_credentials" THEN r.acct.some ELSE r.svce.some
        /\ r.v_Data.some}

\* C27: a native search returns one entry for each search result that
\* carries both the identifying field and the password data, and nothing
\* for any other result; a result without them is never an error, and
\* item-not-found gives the empty list.
C27_SearchSkipsIncomplete ==
    (backend = "macos" /\ ev.op \in {"find_credentials", "find_by_account"}) =>
        LET n == ev.native[1]
            complete == Complete_results(ev.op, n.results)
        IN  /\ n.status = errSecItemNotFound => ev.res = Ok(<< >>)
            /\ n.status = errSecSuccess =>
                  /\ IsOk(ev.res)
                  /\ Len(ev.res.val) = Cardinality(complete)
                  /\ \A r \in complete :
                        \E i \in DOMAIN ev.res.val :
                            LET e == ev.res.val[i]
                            IN  /\ e.password = from_utf8_lossy(r.v_Data.v)
                                /\ IF ev.op = "find_credentials"
                                   THEN /\ e.account = r.acct.v
                                        /\ e.service = ev.key[1]
                                   ELSE /\ e.service = r.svce.v
                                        /\ e.account = ev.key[2]
            /\ IsErr(ev.res) =>
                  /\ n.status \notin {errSecSuccess, errSecItemNotFound}
                  /\ ev.res.err = PlatformError(n.status)

\* C27 witness: a search whose results held incomplete ones next to two
\* complete ones returned Ok with the two entries.
C27_Witness ==
    /\ backend = "macos"
    /\ ev.op = "find_credentials"
    /\ ev.native[1].status = errSecSuccess
    /\ Complete_results(ev.op, ev.native[1].results) # ev.native[1].results
    /\ IsOk(ev.res)
    /\ Len(ev.res.val) = 2

\* C28: the fallback's searches: find_by_account(x) returns every entry of
\* the table, of any service, whose account starts with x, and
\* find_credentials(s) exactly the entries whose service is s.
C28_FallbackPrefixSearch ==
    (backend = "fallback" /\ ev.op \in {"find_credentials", "find_by_account"}) =>
        /\ IsOk(ev.res)
        /\ {ev.res.val[i] : i \in DOMAIN ev.res.val} =
              {[service |-> e.k[1], account |-> e.k[2], password |-> e.v] :
                  e \in {x \in storage :
                           IF ev.op = "find_credentials"
                           THEN x.k[1] = ev.key[1]
                           ELSE starts_with(x.k[2], ev.key[2])}}

C30_Frame ==
    [][LET changed == {k \in AllKeys : Entries(k)' # Entries(k)}
       IN  /\ ev'.op \in {"set", "delete"} => changed \subseteq {ev'.key}
           /\ ev'.op \in {"get", "find_credentials", "find_by_account"} =>
                 /\ changed = {}
                 /\ storage' = storage
                 /\ keychain' = keychain
           /\ \A c \in Callers :
                 (pc[c] = "idle" /\ pc'[c] = "add") =>
                     changed \subseteq {pend'[c].key}
           /\ Cardinality(changed) <= 1]_vars

\* C30 witness: a set_password on one key returned with a different value
\* from the one the other key of the same account keeps.
C30_Witness ==
    /\ ev.op = "set"
    /\ IsOk(ev.res)
    /\ ev.key = OwnKey(1)
    /\ \E k \in WideKeys \ {OwnKey(1)} :
          /\ Live(k)
          /\ lastOp[k].kind = "set"
          /\ lastOp[k].pw # ev.pw

\* C31: a native set_password that returns an error leaves the store as it
\* was: when the key held a password before the call and no other call on
\* the key ran meanwhile, the key holds that password after the failure.
C31_FailedSetKeepsValue ==
    (/\ backend = "macos"
     /\ ev.op = "set"
     /\ IsErr(ev.res)
     /\ ev.ctx.kind = "set") =>
        Held(ev.key) = {ev.ctx.pw}

\* C32: on the native backend interleaving with another set_password on the
\* same key does not make a set_password fail: on an accessible keychain,
\* under options with which a set_password run alone overwrites, every
\* set_password whose add the OS does not refuse returns Ok.
C32_ConcurrentSetsSucceed ==
    (/\ backend = "macos"
     /\ authorized
     /\ ~self.synchronizable
     /\ ev.op = "set"
     /\ ev.status # errSecAuthFailed) =>
        IsOk(ev.res)

\* C33: handle_smart_command runs the branch of the first rule that matches
\* its input: an existing path, set from the file; else an input with '=',
\* set of the key before the first '=' to the value after it; else an input
\* that ends in ".env" or has a '/', restore, which stores nothing; else
\* get of the variable named by the input.  One branch runs.
C33_SmartCommandBranch ==
    (txt.fn = "main" /\ txt.arg.input.some) =>
        LET input == txt.arg.input.v
            o == txt.out
            is_path == Path_exists(input)
            has_eq == "=" \in Chars(input)
            pathlike == \/ "/" \in Chars(input)
                        \/ /\ Len(input) >= 4
                           /\ SubSeq(input, Len(input) - 3, Len(input)) =
                                 <<".", "e", "n", "v">>
        IN  /\ o.branch \in {"set_file", "set_pair", "restore", "get"}
            /\ o.branch = "set_file" <=> is_path
            /\ o.branch = "set_pair" <=> (~is_path /\ has_eq)
            /\ o.branch = "restore" <=> (~is_path /\ ~has_eq /\ pathlike)
            /\ o.branch = "get" <=> (~is_path /\ ~has_eq /\ ~pathlike)
            /\ o.branch = "set_file" =>
                  (IsOk(o.res) =>
                      \A e \in parse_content(Files[input]).val :
                          get_var(cli.target_mode, cli.store, o.service_name,
                                  e.k) = Ok(Some(e.v)))
            /\ o.branch = "set_pair" =>
                  /\ o.key.v \o <<"=">> \o o.value.v = input
                  /\ "=" \notin Chars(o.key.v)
                  /\ IsOk(o.res) =>
                        get_var(cli.target_mode, cli.store, o.service_name,
                                o.key.v) = Ok(o.value)
            /\ o.branch = "restore" => (IsOk(o.res) /\ cli.store = o.before)
            /\ o.branch = "get" => (o.key = Some(input) /\ cli.store = o.before)

\* C33 witness: an input with a '/' and a later '=' that is no existing
\* path ran as a set, and the value is stored under the key with the '/'.
C33_Witness ==
    /\ txt.fn = "main"
    /\ txt.arg.input = Some(<<"a", "/", "b", "=", "c">>)
    /\ txt.out.branch = "set_pair"
    /\ IsOk(txt.out.res)
    /\ get_var(cli.target_mode, cli.store, txt.out.service_name,
               <<"a", "/", "b">>) = Ok(Some(<<"c">>))

\* C34: every run without a subcommand, the set and get inferred from the
\* positional input included, uses the service name of the environment of
\* the top-level --env option.
C34_TopLevelEnv ==
    txt.fn = "main" =>
        txt.out.service_name = generate_service_name(txt.arg.env)

\* C35: write/parse round trip: for every map of variables,
\* parse_content(create_content(vars)) is Ok(vars).
C35_WriteParseRoundTrip ==
    txt.fn = "create_content" => txt.out.parsed = Ok(txt.arg.vars)

\* C37: parse_content is total: it returns Ok with a map for every text.
C37_ParseTotal ==
    txt.fn = "parse_content" => IsOk(txt.out)

\* the key of a line of a .env file, None for a blank line, a comment and a
\* line without '='
Line_key(line) ==
    LET trimmed == trim(line)
        eq == find_unescaped_equals(trimmed)
    IN  IF trimmed = << >> \/ trimmed[1] = "#" \/ ~eq.some THEN None
        ELSE Some(trim(SubSeq(trimmed, 1, eq.v)))

\* C36: update_content(original, vars) keeps every blank line, comment and
\* line without '=' of the original in place, replaces the value on each
\* line whose key is in vars, keeps the other lines verbatim and appends
\* one line for each key of vars the original lacks; parsing the result
\* gives every key of vars its new value and every other key of the
\* original its original value.
C36_UpdateKeepsLines ==
    txt.fn = "update_content" =>
        LET orig == lines(txt.arg.original)
            res == lines(txt.out.content.val)
            new == txt.arg.vars
            keys == {e.k : e \in new}
            had == {Line_key(orig[i]).v :
                       i \in {j \in DOMAIN orig : Line_key(orig[j]).some}}
            lacking == keys \ had
        IN  /\ IsOk(txt.out.content)
            /\ Len(res) = Len(orig) + Cardinality(lacking)
            /\ \A i \in DOMAIN orig :
                  i \in DOMAIN res /\
                  IF Line_key(orig[i]).some /\ Line_key(orig[i]).v \in keys
                  THEN parse_content(res[i]) =
                          Ok({[k |-> Line_key(orig[i]).v,
                               v |-> HashMap_get(new, Line_key(orig[i]).v).v]})
                  ELSE res[i] = orig[i]
            /\ \A k \in lacking :
                  Cardinality({i \in DOMAIN res :
                                  /\ i > Len(orig)
                                  /\ parse_content(res[i]) =
                                        Ok({[k |-> k,
                                             v |-> HashMap_get(new, k).v]})}) = 1
            /\ IsOk(txt.out.parsed)
            /\ \A e \in new : HashMap_get(txt.out.parsed.val, e.k) = Some(e.v)
            /\ \A e \in parse_content(txt.arg.original).val :
                  e.k \notin keys =>
                      HashMap_get(txt.out.parsed.val, e.k) = Some(e.v)

\* the credential a set_var of the key writes to, and what a store holds there
Var_entry(service_name, key) ==
    Entry_new_with_target(cli.target_mode, "Protected", service_name, key).val

Var_value(store, service_name, key) ==
    HashMap_get(store, Var_entry(service_name, key))

\* a set_var of the key fails: no credential can be named, or the platform
\* store refuses the write or the read back
Var_fails(key) ==
    \/ cli.target_mode = "invalid"
    \/ <<"set", key>> \in cli.faults
    \/ <<"get", key>> \in cli.faults

\* C38: set_vars stops at the first set_var that fails and returns its error
\* without rollback: the pairs before it are stored, none after it is
\* attempted; and a set_var fails when its read back fails although the
\* write went through, the value being stored then.
C38_SetVarsStopsAtFirstFailure ==
    /\ cret.op = "set_vars" =>
          \E order \in Orders(DOMAIN cret.pairs) :
              LET failing == {i \in DOMAIN order : Var_fails(order[i])}
                  first == IF failing = {} THEN Len(order) + 1
                           ELSE CHOOSE i \in failing : \A j \in failing : i <= j
                  now(k) == Var_value(cli.store, cret.service, k)
                  was(k) == Var_value(cret.before, cret.service, k)
              IN  /\ IsOk(cret.res) <=> failing = {}
                  /\ \A i \in DOMAIN order :
                        CASE i < first -> now(order[i]) = Some(cret.pairs[order[i]])
                          [] i > first -> now(order[i]) = was(order[i])
                          [] OTHER ->
                               IF /\ cli.target_mode # "invalid"
                                  /\ <<"set", order[i]>> \notin cli.faults
                               THEN now(order[i]) = Some(cret.pairs[order[i]])
                               ELSE now(order[i]) = was(order[i])
                  /\ IsErr(cret.res) =>
                        cret.res.err =
                            IF cli.target_mode = "invalid" THEN Invalid
                            ELSE PlatformFailure
    /\ (/\ cret.op = "set_var"
        /\ cli.target_mode # "invalid"
        /\ <<"set", cret.key.v>> \notin cli.faults
        /\ <<"get", cret.key.v>> \in cli.faults) =>
          /\ cret.res = Err(PlatformFailure)
          /\ Var_value(cli.store, cret.service, cret.key.v) =
                Some(cret.pairs[cret.key.v])

\* C38 witness: a set_vars of two pairs returned the error of the second
\* set_var, and the first pair's new value is stored in place of another.
C38_Witness ==
    /\ cret.op = "set_vars"
    /\ IsErr(cret.res)
    /\ cli.target_mode = "distinct"
    /\ DOMAIN cret.pairs = {"API_KEY", "DB_URL"}
    /\ cli.faults = {<<"set", "DB_URL">>}
    /\ Var_value(cret.before, cret.service, "API_KEY").some
    /\ Var_value(cli.store, cret.service, "API_KEY") =
          Some(cret.pairs["API_KEY"])
    /\ Var_value(cret.before, cret.service, "API_KEY") #
          Var_value(cli.store, cret.service, "API_KEY")

\* a caller's call is in progress: invoked, not returned yet
Calling(c) == locks.call[c].op # "none"

\* the mutex a caller is blocked on: the next one it needs, held by another
Blocked_on(c) ==
    IF /\ Calling(c)
       /\ locks.call[c].need # << >>
       /\ locks.holder[Head(locks.call[c].need)] # 0
    THEN Head(locks.call[c].need) ELSE "none"

\* no call in progress can take a step: every such caller is blocked
Deadlock ==
    /\ \E c \in Callers : Calling(c)
    /\ \A c \in Callers : Calling(c) => Blocked_on(c) # "none"

\* C39: on the lock-guarded in-memory stores no deadlock is reachable and,
\* under fair scheduling, every invoked operation returns in the end: a call
\* on the fallback store takes the one lock once and drops it on return, a
\* call on the mock store takes the storage lock before the metadata lock.
C39_EveryCallReturns ==
    /\ [](/\ ~Deadlock
          /\ \A c \in Callers :
                /\ locks.holder["metadata"] = c =>
                      locks.holder["storage"] = c
                /\ locks.store = "fallback" => locks.holder["metadata"] = 0
                /\ ~Calling(c) => \A m \in Mutexes : locks.holder[m] # c)
    /\ \A c \in Callers : Calling(c) ~> ~Calling(c)

\* C39 witness: a call on the mock store holds the storage lock and the
\* metadata lock while another caller's call is blocked on the storage lock.
C39_Witness ==
    /\ locks.store = "mock"
    /\ \E c, d \in Callers :
          /\ c # d
          /\ locks.holder["storage"] = c
          /\ locks.holder["metadata"] = c
          /\ Blocked_on(d) = "storage"

=============================================================================
